---------------------------- MODULE Spec2Model ----------------------------
(***************************************************************************)
(* Signal-normalisation layer of the TinyGo board abstraction              *)
(* (github.com/aykevl/board): button edge detection, battery percentage    *)
(* approximation and charge state, touch contact tracking.                 *)
(*                                                                         *)
(* The components are independent; each has its own specification, in      *)
(* which the variables of the other components keep their initial values:  *)
(*   SpecButtons     the bitmask button trackers                           *)
(*   SpecKeys        the bitmask trackers and the single button            *)
(*   SpecKeyInput    the Game Boy Advance tracker over all 16 bits         *)
(*   SpecBattery     Power.Status and the percentage approximation         *)
(*   SpecGauge       the smoothed battery percentage                       *)
(*   SpecTouch       touch contacts of the PyPortal and the simulator      *)
(*   SpecTouchRange  the PyPortal touch point over the whole raw range     *)
(*   SpecTouchStep   the PyPortal touch point under a moving finger        *)
(*   SpecSimKeys     the simulator's key queue, listener against caller    *)
(*   SpecSimTouch    the simulator's touch point, listener against caller  *)
(*   SpecKeyEvent    the KeyEvent encoding                                 *)
(*   SpecMedian      the median filter                                     *)
(*   SpecIIR         the IIR filter                                        *)
(*   SpecPPM         the two lookups of the battery percentage             *)
(*   SpecPineTouch   the touch screen and the SPI bus of the PineTime      *)
(*   SpecDraw        DrawBitmap of the Game Boy Advance                    *)
(*   SpecSensors     the sensors of the simulator                          *)
(***************************************************************************)
EXTENDS Integers, Sequences, FiniteSets

VARIABLES
    \* ---- button trackers (gpioButtons, gbaButtons, buttonsConfig) ----
    board,            \* which board's tracker this is
    state,            \* b.state / b.currentState: the last sample
    previousState,    \* b.previousState / b.lastState: what was reported so far
    lastCall,         \* the last call made and the KeyEvent it returned
    drained,          \* history: events returned since the last ReadInput
    sampledPrevious,  \* history: previousState when the last ReadInput ran
    sampledOld,       \* history: state that the last ReadInput overwrote
    lastReported,     \* history: per bit index, the last event reported for it
    \* ---- battery (mainBattery.Status, batteryApproximation) ----
    batOp,            \* the last battery call made ("none" before the first)
    rawValue,         \* the ADC value that the call read
    chargeIndicationPin,  \* what chargeIndicationPin.Get() returned
    powerPresencePin,     \* what powerPresencePin.Get() returned
    status,           \* the ChargeState that the call returned
    microvolts,       \* the microvolts of the call (argument of approximate)
    percent,          \* the percent that approximate returned
    batPrev,          \* history: microvolts and percent of the call before
    \* ---- touch (PyPortal touchInput, simulator sdltouch) ----
    touchID,          \* var touchID uint32 / screen.touchID
    touchPoints,      \* touchPoints[0] / screen.touches[0]: [ID, X, Y]
    medianFilterX,    \* the 5 most recent raw X samples
    medianFilterY,    \* the 5 most recent raw Y samples
    iirFilterX,       \* iirFilterX.state
    iirFilterY,       \* iirFilterY.state
    lastPosX,         \* the last reported raw position
    lastPosY,
    display,          \* var display *ili9341.Device: whether nil, its rotation
    touchResult,      \* what the last ReadTouch returned
    contactReads,     \* history: ReadTouch calls of the current contact
    recent,           \* history: the last HistoryLen ReadTouch calls
    allocated,        \* history: the IDs given to contacts, in order
    sampled,          \* history: what the last ReadTouch read (see Sampled)
    pointer,          \* history: the mouse events of the simulator window
    \* ---- simulator: window listener goroutine and application thread ----
    keyevents,        \* screen.keyevents: the queue of key events
    keyeventsLock,    \* screen.keyeventsLock: "free" or who holds it
    touches,          \* screen.touches[0]: [ID, X, Y]
    screenTouchID,    \* screen.touchID
    touchesLock,      \* screen.touchesLock: "free" or who holds it
    listener,         \* windowListenEvents: position and the parsed line
    app,              \* the application thread: position and locals
    arrived,          \* history: the key events appended, in order
    returned,         \* history: the key events NextEvent returned, in order
    touchHistory,     \* history: the values screen.touches[0] has had
    \* ---- battery smoothing (EWMA and hysteresis of the percentage) ----
    smoothed,         \* the smoothed percentage, in ppm
    lastPercent,      \* the percent that Status reports
    gauge,            \* history of the smoothed Status calls (see GaugeStart)
    \* ---- single functions: the KeyEvent encoding, the median filter ----
    keyEvent,         \* a key code and flag, the KeyEvent and its decoding
    added,            \* history: the values added to medianFilterX, newest last
    fed,              \* history: the last call of iirFilterX.add (see fedNothing)
    looked,           \* one microvolts value and what the two lookups return
    \* ---- PineTime peripherals, the GBA display, the simulated sensors ----
    latch,            \* nrf.P0.LATCH, the bit of touchInterruptPin
    touchInitialized, \* var touchInitialized bool
    watchdog,         \* history: ReadInput calls and reloads of nrf.WDT
    spi0Configured,   \* var spi0Configured bool
    spiBus,           \* history: getSPI0 calls and configurations of the bus
    drawn,            \* the last DrawBitmap call and the pixels it wrote
    sensors           \* simulatedSensors and the last call on it

btnVars == <<state, previousState, lastCall, drained,
             sampledPrevious, sampledOld, lastReported>>

batVars == <<batOp, rawValue, chargeIndicationPin, powerPresencePin, status,
             microvolts, percent, batPrev>>

touchVars == <<touchID, touchPoints, medianFilterX, medianFilterY,
               iirFilterX, iirFilterY, lastPosX, lastPosY, display,
               touchResult, contactReads, recent, allocated, sampled,
               pointer>>

simVars == <<keyevents, keyeventsLock, touches, screenTouchID, touchesLock,
             listener, app, arrived, returned, touchHistory>>

gaugeVars == <<smoothed, lastPercent, gauge>>

unitVars == <<keyEvent, added, fed, looked>>

hwVars == <<latch, touchInitialized, watchdog, spi0Configured, spiBus,
            drawn, sensors>>

vars == <<board, btnVars, batVars, touchVars, simVars, gaugeVars, unitVars,
          hwVars>>

\* The frame of an operation of one component: the board and the other
\* components stay as they are.
OnlyButtons ==
    UNCHANGED <<hwVars, board, batVars, touchVars, simVars, gaugeVars, unitVars>>
OnlyBattery ==
    UNCHANGED <<hwVars, board, btnVars, touchVars, simVars, gaugeVars, unitVars>>
OnlyTouch ==
    UNCHANGED <<hwVars, board, btnVars, batVars, simVars, gaugeVars, unitVars>>
OnlySimulator ==
    UNCHANGED <<hwVars, board, btnVars, batVars, touchVars, gaugeVars, unitVars>>
OnlyGauge ==
    UNCHANGED <<hwVars, board, btnVars, batVars, touchVars, simVars, unitVars>>

(***************************************************************************)
(* Fixed-width integer helpers.                                            *)
(***************************************************************************)
RECURSIVE Pow2(_)
Pow2(n) == IF n = 0 THEN 1 ELSE 2 * Pow2(n - 1)

\* x ^ y on natural numbers
RECURSIVE BitXor(_, _)
BitXor(x, y) ==
    IF x = 0 THEN y
    ELSE IF y = 0 THEN x
    ELSE (((x % 2) + (y % 2)) % 2) + 2 * BitXor(x \div 2, y \div 2)

\* x & y on natural numbers
RECURSIVE BitAnd(_, _)
BitAnd(x, y) ==
    IF x = 0 \/ y = 0 THEN 0
    ELSE ((x % 2) * (y % 2)) + 2 * BitAnd(x \div 2, y \div 2)

\* x | y on natural numbers
BitOr(x, y) == x + y - BitAnd(x, y)

\* bit i of x
Bit(x, i) == (x \div Pow2(i)) % 2

RECURSIVE PopCount(_)
PopCount(x) == IF x = 0 THEN 0 ELSE (x % 2) + PopCount(x \div 2)

\* math/bits.TrailingZeros32: the index of the lowest set bit, 32 for x = 0
RECURSIVE TrailingZeros32(_)
TrailingZeros32(x) ==
    IF x = 0 THEN 32
    ELSE IF x % 2 = 1 THEN 0
    ELSE 1 + TrailingZeros32(x \div 2)

(***************************************************************************)
(* Key codes and key events (type Key uint8, type KeyEvent uint16).        *)
(***************************************************************************)
NoKey == 0
KeyEscape == 1
KeyLeft == 2
KeyRight == 3
KeyUp == 4
KeyDown == 5
KeyEnter == 6
KeySpace == 7
KeyA == 8
KeyB == 9
KeyL == 10
KeyR == 11
KeySelect == 12
KeyStart == 13

NoKeyEvent == 0
keyReleased == 32768

\* Mutant of Key: the conversion keeps the low 7 bits only
KeySevenBits(k) == k % 128

\* KeyEvent.Key(): Key(k), the conversion uint16 -> uint8 keeps the low 8 bits
Key(k) == k % 256

\* KeyEvent.Pressed(): k&keyReleased == 0
Pressed(k) == BitAnd(k, keyReleased) = 0

(***************************************************************************)
(* The bitmask button trackers.  The four boards share the text of         *)
(* NextEvent; they differ in the width of the state, in the key code       *)
(* table and in how ReadInput builds the sample.                           *)
(***************************************************************************)
Boards == {"gopher-badge", "thumby", "pybadge", "gameboy-advance"}

\* var codes = [8]Key{...} of the Gopher Badge; missing entries are zero
codesGopherBadge == <<KeyA, KeyB, KeyUp, KeyLeft, KeyDown, KeyRight, NoKey, NoKey>>

\* var codes = [8]Key{...} of the Thumby
codesThumby == <<KeyA, KeyB, KeyUp, KeyLeft, KeyDown, KeyRight, NoKey, NoKey>>

\* var codes = [8]Key{...} of the PyBadge
codesPyBadge == <<KeyLeft, KeyUp, KeyDown, KeyRight, KeySelect, KeyStart, KeyA, KeyB>>

\* var codes = [16]Key{...} of the Game Boy Advance; missing entries are zero
codesGBA == <<KeyA, KeyB, KeySelect, KeyStart, KeyRight, KeyLeft, KeyUp, KeyDown,
              KeyR, KeyL, NoKey, NoKey, NoKey, NoKey, NoKey, NoKey>>

codes(b) ==
    CASE b = "gopher-badge" -> codesGopherBadge
      [] b = "thumby" -> codesThumby
      [] b = "pybadge" -> codesPyBadge
      [] b = "gameboy-advance" -> codesGBA

\* the width in bits of state and previousState (uint8, uint16)
StateBits(b) == IF b = "gameboy-advance" THEN 16 ELSE 8

\* The number of pins (keys) that the environment presses and releases; the
\* others stay released.
NumPins == 3

Min(a, b) == IF a < b THEN a ELSE b

\* The exercised pins of a board with n pins: the lowest ones and the
\* highest one.
ActivePins(n) == (0 .. Min(NumPins, n) - 2) \cup {n - 1}

RECURSIVE MaskOf(_)
MaskOf(S) == IF S = {} THEN 0
             ELSE LET i == CHOOSE i \in S : TRUE IN Pow2(i) + MaskOf(S \ {i})

\* The pins of a GPIO board that read low (pressed), as a set of bit indices.
GPIOPinSets == SUBSET ActivePins(6)

\* The bytes the PyBadge shift register delivers.
ShifterValues == {MaskOf(S) : S \in SUBSET ActivePins(8)}

\* The values of the KEYINPUT register: bit i is 0 while key i is down, bits
\* 10..15 are unused and read 0.
KeyInputValues == {1023 - MaskOf(S) : S \in SUBSET ActivePins(10)}

\* The zero value of a tracker.
ButtonsZero ==
    /\ state = 0
    /\ previousState = 0
    /\ lastCall = [op |-> "none", event |-> NoKeyEvent]
    /\ drained = <<>>
    /\ sampledPrevious = 0
    /\ sampledOld = 0
    /\ lastReported = [index \in 0 .. 15 |-> "none"]

\* Mutant of StoreSample: the new sample also discards what was still pending
\* (previousState is set to the sample that is being overwritten).
StoreSampleResync(sample) ==
    /\ state' = sample
    /\ previousState' = state
    /\ sampledOld' = state
    /\ sampledPrevious' = previousState
    /\ drained' = <<>>
    /\ lastCall' = [op |-> "ReadInput", event |-> NoKeyEvent]
    /\ UNCHANGED lastReported

\* What every ReadInput does once it has the sample: b.state = sample.
StoreSample(sample) ==
    /\ state' = sample
    /\ sampledOld' = state
    /\ sampledPrevious' = previousState
    /\ drained' = <<>>
    /\ lastCall' = [op |-> "ReadInput", event |-> NoKeyEvent]
    /\ UNCHANGED <<previousState, lastReported>>

\* gpioButtons.ReadInput (Gopher Badge, Thumby): one bit per pin that reads low
ReadInputGPIO ==
    /\ board \in {"gopher-badge", "thumby"}
    /\ \E low \in GPIOPinSets :
          StoreSample(MaskOf(low) % Pow2(StateBits(board)))
    /\ OnlyButtons

\* buttonsConfig.ReadInput (PyBadge): b.currentState, _ = b.Device.ReadInput()
ReadInputPyBadge ==
    /\ board = "pybadge"
    /\ \E value \in ShifterValues : StoreSample(value)
    /\ OnlyButtons

\* gbaButtons.ReadInput: b.state = gba.KEY.INPUT.Get() ^ 0x3ff
ReadInputGBA ==
    /\ board = "gameboy-advance"
    /\ \E input \in KeyInputValues : StoreSample(BitXor(input, 1023))
    /\ OnlyButtons

\* Values of the whole 16-bit KEYINPUT register, whatever its upper six
\* bits read: the lowest and the highest key bit (0, 9) and the lowest and
\* the highest bit above the keys (10, 15), each either way.
KeyInputWide == {BitXor(MaskOf(S), 1023) : S \in SUBSET {0, 9, 10, 15}}

\* gbaButtons.ReadInput with all 16 bits of the register: the code keeps
\* them all (b.state = gba.KEY.INPUT.Get() ^ 0x3ff, no mask).
ReadInputGBAWide ==
    /\ board = "gameboy-advance"
    /\ \E input \in KeyInputWide : StoreSample(BitXor(input, 1023))
    /\ OnlyButtons

\* change := b.state ^ b.previousState
changeOf(s, p) == BitXor(s, p)

\* Mutant of indexOf: the highest changed bit (bits.Len32(change) - 1)
RECURSIVE indexOfHighest(_)
indexOfHighest(change) ==
    IF change \div 2 = 0 THEN 0 ELSE 1 + indexOfHighest(change \div 2)

\* index := bits.TrailingZeros32(uint32(change))
indexOf(change) == TrailingZeros32(change)

\* Mutant of eventOf: the release flag is set when the bit is 1
eventOfInverted(b, s, index) ==
    LET e == codes(b)[index + 1]
    IN  IF BitAnd(s, Pow2(index) % Pow2(StateBits(b))) # 0
        THEN BitOr(e, keyReleased)
        ELSE e

\* e := KeyEvent(codes[index]); if b.state&(1<<index) == 0 { e |= keyReleased }
eventOf(b, s, index) ==
    LET e == codes(b)[index + 1]
    IN  IF BitAnd(s, Pow2(index) % Pow2(StateBits(b))) = 0
        THEN BitOr(e, keyReleased)
        ELSE e

\* Mutant of markRead: b.previousState = b.state, every change is dropped
markReadSync(b, p, index) == state

\* Mutant of markRead: the event is not marked as read
markReadKeep(b, p, index) == p

\* Mutant of markRead: b.previousState |= (1 << index)
markReadOr(b, p, index) == BitOr(p, Pow2(index) % Pow2(StateBits(b)))

\* b.previousState ^= (1 << index)
markRead(b, p, index) == BitXor(p, Pow2(index) % Pow2(StateBits(b)))

\* History: the event e was returned for the bit index.
Reported(index, e) ==
    lastReported' = [lastReported EXCEPT
                        ![index] = IF Pressed(e) THEN "press" ELSE "release"]

\* NextEvent of gpioButtons, gbaButtons and the PyBadge buttonsConfig
NextEvent ==
    /\ board \in Boards
    /\ OnlyButtons
    /\ LET change == changeOf(state, previousState)
       IN
        IF change = 0
        THEN /\ lastCall' = [op |-> "NextEvent", event |-> NoKeyEvent]
             /\ UNCHANGED <<state, previousState, drained,
                            sampledPrevious, sampledOld, lastReported>>
        ELSE LET index == indexOf(change)
                 e == eventOf(board, state, index)
             IN  /\ previousState' = markRead(board, previousState, index)
                 /\ lastCall' = [op |-> "NextEvent", event |-> e]
                 /\ drained' = Append(drained, [index |-> index, event |-> e])
                 /\ Reported(index, e)
                 /\ UNCHANGED <<state, sampledPrevious, sampledOld>>

\* Consecutive ReadInput calls that the watchdog history counts.
MaxHeld == 3

\* Mutant of reloadsWatchdog: every ReadInput reloads the watchdog
reloadsWatchdogAlways(pressed) == TRUE

\* if !state { nrf.WDT.RR[0].Set(0x6E524635) }
reloadsWatchdog(pressed) == ~pressed

\* singleButton.ReadInput (PineTime): b.state = machine.BUTTON_IN.Get(); the
\* bool is bit 0 of state here.  watchdog counts the ReadInput calls since
\* the last reload of the watchdog (sinceReload) and the calls in a row that
\* read the button as pressed (held).
ReadInputSingle ==
    /\ board = "pinetime"
    /\ \E high \in BOOLEAN :
          /\ StoreSample(IF high THEN 1 ELSE 0)
          /\ watchdog' = [sinceReload |-> IF reloadsWatchdog(high) THEN 0
                                          ELSE Min(watchdog.sinceReload + 1,
                                                   MaxHeld),
                          held |-> IF high THEN Min(watchdog.held + 1, MaxHeld)
                                   ELSE 0]
    /\ UNCHANGED <<latch, touchInitialized, spi0Configured, spiBus, drawn,
                   sensors>>
    /\ UNCHANGED <<board, batVars, touchVars, simVars, gaugeVars, unitVars>>

\* Mutant of singleEvent: the release flag is never set
singleEventPress(s) == KeyEnter

\* e := KeyEvent(KeyEnter); if !b.state { e |= keyReleased }
singleEvent(s) == IF s = 0 THEN BitOr(KeyEnter, keyReleased) ELSE KeyEnter

\* func (b *singleButton) NextEvent() KeyEvent
NextEventSingle ==
    /\ board = "pinetime"
    /\ OnlyButtons
    /\ IF state = previousState
       THEN /\ lastCall' = [op |-> "NextEvent", event |-> NoKeyEvent]
            /\ UNCHANGED <<state, previousState, drained,
                           sampledPrevious, sampledOld, lastReported>>
       ELSE LET e == singleEvent(state)
            IN  /\ previousState' = state
                /\ lastCall' = [op |-> "NextEvent", event |-> e]
                /\ drained' = Append(drained, [index |-> 0, event |-> e])
                /\ Reported(0, e)
                /\ UNCHANGED <<state, sampledPrevious, sampledOld>>

(***************************************************************************)
(* Battery: charge state and state-of-charge approximation.                *)
(*                                                                         *)
(* uint32 values are plain integers here.  TLC stops with an overflow      *)
(* error at 2^31, so every run also shows that no intermediate value of    *)
(* approximate reaches it; the one product that does (rawValue * 46875)    *)
(* is computed in 16-bit limbs.                                            *)
(***************************************************************************)
UnknownBattery == 0
NoBattery == 1
BatteryUnavailable == 2
Charging == 3
NotCharging == 4
Discharging == 5

\* The conversion to int8 of an integer.
Int8(x) == LET m == x % 256 IN IF m >= 128 THEN m - 256 ELSE m

\* var lithumBatteryApproximation = batteryApproximation{...}
lithumBatteryApproximation ==
    [voltages |-> <<3500, 3600, 3700, 3750, 3900, 4180>>,
     percents |-> <<0, 10, 25, 50, 75, 100>>]

\* var batteryPercent = batteryApproximation{...} of the PineTime
batteryPercent ==
    [voltages |-> <<3500, 3600, 3700, 3750, 3900, 4180>>,
     percents |-> <<0, 10, 25, 50, 75, 100>>]

\* Mutant of voltOffsetOf: measured from the upper end of the bracket
voltOffsetFromEnd(mv, voltStart, voltEnd) == voltEnd - mv

\* voltOffset := microvolts - voltStart
voltOffsetOf(mv, voltStart, voltEnd) == mv - voltStart

\* Mutant of percentDiffOf: the upper percentage instead of the difference
percentDiffIsEnd(percentStart, percentEnd) == percentEnd

\* percentDiff := percentEnd - percentStart (int8)
percentDiffOf(percentStart, percentEnd) == Int8(percentEnd - percentStart)

\* Mutant of percentOffsetOf: rounds to the nearest percent
percentOffsetRounded(voltOffset, percentDiff, voltDiff) ==
    (voltOffset * percentDiff + (voltDiff \div 2)) \div voltDiff

\* percentOffset := voltOffset * uint32(percentDiff) / uint32(voltDiff)
percentOffsetOf(voltOffset, percentDiff, voltDiff) ==
    (voltOffset * percentDiff) \div voltDiff

\* func (approx *batteryApproximation) approximate(microvolts uint32) int8
\* The loop returns at the first i (0-based) with voltages[i]*1000 >
\* microvolts; i = 0 cannot happen after the first test.
approximate(approx, mv) ==
    IF mv <= approx.voltages[1] * 1000
    THEN 0
    ELSE LET above == {i \in 1 .. 6 : approx.voltages[i] * 1000 > mv}
         IN  IF above = {}
             THEN 100
             ELSE LET i == CHOOSE i \in above : \A k \in above : i <= k
                      voltStart == approx.voltages[i - 1] * 1000
                      voltEnd == approx.voltages[i] * 1000
                      percentStart == approx.percents[i - 1]
                      percentEnd == approx.percents[i]
                      voltOffset == voltOffsetOf(mv, voltStart, voltEnd)
                      voltDiff == voltEnd - voltStart
                      percentDiff == percentDiffOf(percentStart, percentEnd)
                      percentOffset ==
                          percentOffsetOf(voltOffset, percentDiff, voltDiff)
                  IN  Int8(percentOffset + percentStart)

\* The product a * b in full, as a low limb of 16 bits and what is above it.
mulWide(a, b) ==
    LET x == a * (b % 256)
        y == a * (b \div 256)
        t == (y % 256) * 256 + x
    IN  [hi |-> (y \div 256) + (t \div 65536), lo |-> t % 65536]

\* The uint32 product a * b, as 16-bit limbs: what is above 32 bits is lost.
mulU32(a, b) ==
    LET w == mulWide(a, b)
    IN  [hi |-> w.hi % 65536, lo |-> w.lo]

\* The uint32 quotient p / 512 of a product in limbs.
divBy512(p) == p.hi * 128 + (p.lo \div 512)

\* Mutant of scalePineTime: 6000_000/64, the fraction reduced once less
scalePineTimeBy64 == 2 * 46875

\* The multipliers of the conversions: 6000_000/128 and 6600_000/128
scalePineTime == 46875
scalePyBadge == 51562

\* microvolts = uint32(rawValue) * 46875 / 512 (PineTime)
microvoltsPineTime(raw) == divBy512(mulU32(raw, scalePineTime))

\* microvolts := uint32(rawValue) * 51562 / 512 (PyBadge)
microvoltsPyBadge(raw) == divBy512(mulU32(raw, scalePyBadge))

\* Mutant of chargeStateOf: power presence is tested first
chargeStatePowerFirst(chargePin, powerPin) ==
    LET isCharging == chargePin = FALSE
        isPowerPresent == powerPin = FALSE
    IN  IF isPowerPresent THEN NotCharging
        ELSE IF isCharging THEN Charging
        ELSE Discharging

\* isCharging := chargeIndicationPin.Get() == false; isPowerPresent := ...
chargeStateOf(chargePin, powerPin) ==
    LET isCharging == chargePin = FALSE
        isPowerPresent == powerPin = FALSE
    IN  IF isCharging THEN Charging
        ELSE IF isPowerPresent THEN NotCharging
        ELSE Discharging

\* Samples per breakpoint: the breakpoint itself and NearDelta microvolts
\* on either side.
NearDelta == 1

\* A grid of GridCount + 1 voltages, GridStep microvolts apart, from the
\* lowest breakpoint upwards.
GridStep == 40000
GridCount == 18

\* The voltages that TestBatteryApprox tries.
TestMicrovolts ==
    {2900000, 3400000, 3500000, 3510000, 3528000, 3730000, 3749999, 3750000,
     3750001, 4179999, 4180000, 4180001, 5000000}

\* The microvolts values approximate is called with directly: the test's,
\* the neighbourhood of every breakpoint, a grid, and the ends of the range
\* (2^31 - 1 is the largest value TLC represents).
MicrovoltSamples ==
    TestMicrovolts
    \cup {lithumBatteryApproximation.voltages[i] * 1000 + d :
             i \in 1 .. 6, d \in (0 - NearDelta) .. NearDelta}
    \cup {3500000 + k * GridStep : k \in 0 .. GridCount}
    \cup {0, 1, 2147483647}

\* The 16-bit values machine.ADC.Get() returns.
RawADCValues == {0, 1, 38229, 38230, 40000, 42000, 45657, 65535}

\* The state before the first call.
BatteryZero ==
    /\ batOp = "none"
    /\ rawValue = 0
    /\ chargeIndicationPin = FALSE
    /\ powerPresencePin = FALSE
    /\ status = UnknownBattery
    /\ microvolts = 0
    /\ percent = 0
    /\ batPrev = [valid |-> FALSE, microvolts |-> 0, percent |-> 0]

\* History: the call that is being replaced.
BatteryRemember ==
    batPrev' = [valid |-> batOp # "none", microvolts |-> microvolts,
                percent |-> percent]

\* lithumBatteryApproximation.approximate(tc.microvolts), as the test calls it
TestBatteryApprox ==
    /\ OnlyBattery
    /\ \E mv \in MicrovoltSamples :
        /\ batOp' = "approximate"
        /\ microvolts' = mv
        /\ percent' = approximate(lithumBatteryApproximation, mv)
        /\ rawValue' = 0
        /\ chargeIndicationPin' = FALSE
        /\ powerPresencePin' = FALSE
        /\ status' = UnknownBattery
        /\ BatteryRemember

\* mainBattery.Status of the PineTime
PineTimeStatus ==
    /\ board = "pinetime"
    /\ OnlyBattery
    /\ \E raw \in RawADCValues, chargePin \in BOOLEAN, powerPin \in BOOLEAN :
          /\ batOp' = "Status"
          /\ rawValue' = raw
          /\ chargeIndicationPin' = chargePin
          /\ powerPresencePin' = powerPin
          /\ microvolts' = microvoltsPineTime(raw)
          /\ status' = chargeStateOf(chargePin, powerPin)
          /\ percent' = approximate(batteryPercent, microvoltsPineTime(raw))
          /\ BatteryRemember

\* mainBattery.Status of the PyBadge
PyBadgeStatus ==
    /\ board = "pybadge"
    /\ OnlyBattery
    /\ \E raw \in RawADCValues :
          /\ batOp' = "Status"
          /\ rawValue' = raw
          /\ chargeIndicationPin' = FALSE
          /\ powerPresencePin' = FALSE
          /\ microvolts' = microvoltsPyBadge(raw)
          /\ status' = UnknownBattery
          /\ percent' =
                approximate(lithumBatteryApproximation, microvoltsPyBadge(raw))
          /\ BatteryRemember

(***************************************************************************)
(* Touch input of the PyPortal (resistive panel, filtered and calibrated)   *)
(* and of the simulator (mouse events of the window).                      *)
(***************************************************************************)
Rotation0 == 0
Rotation90 == 1
Rotation180 == 2
Rotation270 == 3

\* Integer division of Go: the quotient is truncated toward zero.
GoDiv(a, b) ==
    LET q == (IF a < 0 THEN 0 - a ELSE a) \div (IF b < 0 THEN 0 - b ELSE b)
    IN  IF (a < 0) = (b < 0) THEN q ELSE 0 - q

\* The conversion to int16 of an integer.
Int16(x) == LET m == x % 65536 IN IF m >= 32768 THEN m - 65536 ELSE m

\* Mutant of clamp: the result is mapped but not limited to the output range
clampUnlimited(value, lowIn, highIn, lowOut, highOut) ==
    GoDiv((value - lowIn) * (highOut - lowOut), highIn - lowIn)

\* func clamp(value, lowIn, highIn, lowOut, highOut int) int
clamp(value, lowIn, highIn, lowOut, highOut) ==
    LET rangeIn == highIn - lowIn
        rangeOut == highOut - lowOut
        valueOut == GoDiv((value - lowIn) * rangeOut, rangeIn)
        capped == IF valueOut > highOut THEN highOut ELSE valueOut
    IN  IF capped < lowOut THEN lowOut ELSE capped

\* Mutant of medianAdd: the value overwrites the newest entry and the older
\* entries stay
medianAddStale(f, n) == <<f[1], f[2], f[3], f[4], n>>

\* func (f *medianFilter) add(n int)
medianAdd(f, n) == <<f[2], f[3], f[4], f[5], n>>

\* compareSwap(&sorted[a], &sorted[b]), with a and b counted from 0
compareSwap(sorted, a, b) ==
    IF sorted[a + 1] > sorted[b + 1]
    THEN [sorted EXCEPT ![a + 1] = sorted[b + 1], ![b + 1] = sorted[a + 1]]
    ELSE sorted

\* Mutant of medianValue: the last compare-swap of the network is left out
medianValueEightSwaps(f) ==
    LET s1 == compareSwap(f, 1, 4)
        s2 == compareSwap(s1, 0, 3)
        s3 == compareSwap(s2, 1, 3)
        s4 == compareSwap(s3, 0, 2)
        s5 == compareSwap(s4, 2, 4)
        s6 == compareSwap(s5, 0, 1)
        s7 == compareSwap(s6, 1, 2)
        s8 == compareSwap(s7, 3, 4)
    IN  s8[3]

\* func (f *medianFilter) value() int
medianValue(f) ==
    LET s1 == compareSwap(f, 1, 4)
        s2 == compareSwap(s1, 0, 3)
        s3 == compareSwap(s2, 1, 3)
        s4 == compareSwap(s3, 0, 2)
        s5 == compareSwap(s4, 2, 4)
        s6 == compareSwap(s5, 0, 1)
        s7 == compareSwap(s6, 1, 2)
        s8 == compareSwap(s7, 3, 4)
        s9 == compareSwap(s8, 2, 3)
    IN  s9[3]

\* Mutant of iirAdd: the reset flag is ignored
iirAddNoReset(st, x, reset) == GoDiv(st + x + 1, 2)

\* func (f *iirFilter) add(x int, reset bool): the new state
iirAdd(st, x, reset) ==
    LET seeded == IF reset THEN x ELSE st
    IN  GoDiv(seeded + x + 1, 2)

\* const diff = 400
diff == 400

\* Mutant of hysteresis: the filtered value is reported as it is
hysteresisFollows(filtered, lastPos) == filtered

\* Mutant of hysteresis: the step is added where it has to be subtracted
hysteresisPast(filtered, lastPos) ==
    LET up == IF filtered > lastPos + diff THEN filtered + diff ELSE lastPos
    IN  IF filtered < lastPos - diff THEN filtered - diff ELSE up

\* Mutant of hysteresis: a filtered value below the position is ignored
hysteresisUpOnly(filtered, lastPos) ==
    IF filtered > lastPos + diff THEN filtered - diff ELSE lastPos

\* The hysteresis of one axis: the position to report for the filtered value
hysteresis(filtered, lastPos) ==
    LET up == IF filtered > lastPos + diff THEN filtered - diff ELSE lastPos
    IN  IF filtered < lastPos - diff THEN filtered + diff ELSE up

\* Values calibrated on the PyPortal
xmin == 54000
xmax == 16000
ymin == 48000
ymax == 22000

\* Mutant of rotated: every rotation subtracts x from 239 and y from 319
rotatedOneSize(x, y, disp) ==
    IF disp.nil THEN [X |-> x, Y |-> y]
    ELSE IF disp.rotation = Rotation90
         THEN [X |-> y, Y |-> Int16(319 - x)]
    ELSE IF disp.rotation = Rotation180
         THEN [X |-> Int16(239 - x), Y |-> Int16(319 - y)]
    ELSE IF disp.rotation = Rotation270
         THEN [X |-> Int16(239 - y), Y |-> x]
    ELSE [X |-> x, Y |-> y]

\* The rotation switch of ReadTouch: if display != nil { switch
\* display.Rotation() { ... } }
rotated(x, y, disp) ==
    IF disp.nil THEN [X |-> x, Y |-> y]
    ELSE IF disp.rotation = Rotation90
         THEN [X |-> y, Y |-> Int16(239 - x)]
    ELSE IF disp.rotation = Rotation180
         THEN [X |-> Int16(239 - x), Y |-> Int16(319 - y)]
    ELSE IF disp.rotation = Rotation270
         THEN [X |-> Int16(319 - y), Y |-> x]
    ELSE [X |-> x, Y |-> y]

\* The calibration and the rotation switch of ReadTouch: the pixel reported
\* for the raw position (posX, posY).
calibrated(posX, posY, disp) ==
    rotated(Int16(clamp(posX, ymin, ymax, 0, 239)),
            Int16(clamp(posY, xmin, xmax, 0, 319)), disp)

\* The raw positions resistiveTouch.ReadTouchPoint() delivers: the two
\* positions that calibrate to opposite corners of the panel.
TouchSamples == {[X |-> ymin, Y |-> xmin], [X |-> ymax, Y |-> xmax]}

\* The raw pressures it delivers: at the threshold and just above it.
PressureSamples == {8192, 8193}

\* Raw positions over the whole range of the 16-bit converter: the two
\* calibrated corners, a position inside the calibration range, and positions
\* outside it on either side.
PanelSamples ==
    {[X |-> ymin, Y |-> xmin], [X |-> ymax, Y |-> xmax],
     [X |-> 35000, Y |-> 35000], [X |-> 0, Y |-> 0],
     [X |-> 65535, Y |-> 65535], [X |-> 65535, Y |-> 0]}

\* The pixel positions of the mouse events of the simulator window.
MousePositions == {[X |-> 0, Y |-> 0], [X |-> 239, Y |-> 239]}

\* Contacts per run, ReadTouch calls per contact, and the length of the
\* history of calls.
MaxTouchID == 2
MaxContactReads == 3
HistoryLen == 5

noPoint == [n |-> 0, ID |-> 0, X |-> 0, Y |-> 0]

\* Before the first mouse event: no button is down.  event is the last mouse
\* event, before the touch point that it found, and reads the results
\* (length and ID) of the ReadTouch calls since the last mousedown or mouseup.
pointerIdle == [down |-> FALSE, event |-> "none",
                before |-> [ID |-> 0, X |-> 0, Y |-> 0], reads |-> {}]
onePoint(pt) == [n |-> 1, ID |-> pt.ID, X |-> pt.X, Y |-> pt.Y]

\* The zero values of the package-level variables.
TouchZero ==
    /\ touchID = 0
    /\ touchPoints = [ID |-> 0, X |-> 0, Y |-> 0]
    /\ medianFilterX = <<0, 0, 0, 0, 0>>
    /\ medianFilterY = <<0, 0, 0, 0, 0>>
    /\ iirFilterX = 0
    /\ iirFilterY = 0
    /\ lastPosX = 0
    /\ lastPosY = 0
    /\ display = [nil |-> TRUE, rotation |-> Rotation0]
    /\ touchResult = noPoint
    /\ contactReads = 0
    /\ recent = <<>>
    /\ allocated = <<>>
    /\ sampled = [z |-> 0, points |-> <<>>]
    /\ pointer = pointerIdle

\* History: the pressure that this ReadTouch call read and the raw positions
\* that it added to the median filters, in order.
Sampled(z, points) == sampled' = [z |-> z, points |-> points]

\* History: one more ReadTouch call, of which the last HistoryLen are kept.
\* Each entry: whether the sample was above the threshold, and the ID of the
\* touch point and the ID counter when the call returned.
Remember(above, id, counter) ==
    LET all == Append(recent, [above |-> above, id |-> id,
                               counter |-> counter])
    IN  recent' = IF Len(all) > HistoryLen THEN Tail(all) ELSE all

\* Mutant of nextTouchID: the counter is not incremented
nextTouchIDSame(id) == id

\* touchID++ (far below the wrap-around of uint32: see MaxTouchID)
nextTouchID(id) == id + 1

\* Mutant of releasedID: the ID survives the release
releasedIDKept(id) == id

\* touchPoints[0].ID = 0
releasedID(id) == 0

\* mainDisplay.Configure of the PyPortal: display = ili9341.NewParallel(...),
\* configured with Rotation270
ConfigureDisplay ==
    /\ board = "pyportal"
    /\ display.nil
    /\ recent = <<>>
    /\ display' = [nil |-> FALSE, rotation |-> Rotation270]
    /\ UNCHANGED <<touchID, touchPoints, medianFilterX, medianFilterY,
                   iirFilterX, iirFilterY, lastPosX, lastPosY, touchResult,
                   contactReads, recent, allocated,
                   sampled>>
    /\ UNCHANGED pointer
    /\ OnlyTouch

\* display.SetRotation(rotation); the application chooses the rotation
\* while it starts up, before it polls the touch screen.
SetRotation ==
    /\ board = "pyportal"
    /\ ~display.nil
    /\ recent = <<>>
    /\ \E rotation \in {Rotation0, Rotation90, Rotation180, Rotation270} :
          display' = [nil |-> FALSE, rotation |-> rotation]
    /\ UNCHANGED <<touchID, touchPoints, medianFilterX, medianFilterY,
                   iirFilterX, iirFilterY, lastPosX, lastPosY, touchResult,
                   contactReads, recent, allocated,
                   sampled>>
    /\ UNCHANGED pointer
    /\ OnlyTouch

\* touchInput.ReadTouch of the PyPortal, for a sample above the threshold
\* while no touch is active: the first touch.
ReadTouchFirst(point, z, more) ==
    LET fx == medianAdd(medianAdd(medianAdd(medianAdd(medianAdd(
                  medianFilterX, point.X), more[1].X), more[2].X),
                  more[3].X), more[4].X)
        fy == medianAdd(medianAdd(medianAdd(medianAdd(medianAdd(
                  medianFilterY, point.Y), more[1].Y), more[2].Y),
                  more[3].Y), more[4].Y)
        ix == iirAdd(iirFilterX, medianValue(fx), TRUE)
        iy == iirAdd(iirFilterY, medianValue(fy), TRUE)
        id == nextTouchID(touchID)
        px == calibrated(ix, iy, display)
    IN  /\ touchID < MaxTouchID
        /\ touchID' = id
        /\ medianFilterX' = fx
        /\ medianFilterY' = fy
        /\ iirFilterX' = ix
        /\ iirFilterY' = iy
        /\ lastPosX' = ix
        /\ lastPosY' = iy
        /\ touchPoints' = [ID |-> id, X |-> px.X, Y |-> px.Y]
        /\ touchResult' = onePoint(touchPoints')
        /\ contactReads' = 1
        /\ allocated' = Append(allocated, id)
        /\ Remember(TRUE, id, id)
        /\ Sampled(z, <<point, more[1], more[2], more[3], more[4]>>)

\* ... for a sample above the threshold while a touch is active.
ReadTouchMove(point, z) ==
    LET fx == medianAdd(medianFilterX, point.X)
        fy == medianAdd(medianFilterY, point.Y)
        ix == iirAdd(iirFilterX, medianValue(fx), FALSE)
        iy == iirAdd(iirFilterY, medianValue(fy), FALSE)
        posX == hysteresis(ix, lastPosX)
        posY == hysteresis(iy, lastPosY)
        px == calibrated(posX, posY, display)
    IN  /\ contactReads < MaxContactReads
        /\ medianFilterX' = fx
        /\ medianFilterY' = fy
        /\ iirFilterX' = ix
        /\ iirFilterY' = iy
        /\ lastPosX' = posX
        /\ lastPosY' = posY
        /\ touchPoints' = [ID |-> touchPoints.ID, X |-> px.X, Y |-> px.Y]
        /\ touchResult' = onePoint(touchPoints')
        /\ contactReads' = contactReads + 1
        /\ Remember(TRUE, touchPoints.ID, touchID)
        /\ Sampled(z, <<point>>)
        /\ UNCHANGED <<touchID, allocated>>

\* Mutant of ReadTouchRelease: the release clears the filters and the last
\* position as well
ReadTouchReleaseReset(z) ==
    /\ touchPoints' = [touchPoints EXCEPT !.ID = releasedID(touchPoints.ID)]
    /\ touchResult' = noPoint
    /\ contactReads' = 0
    /\ Remember(FALSE, touchPoints'.ID, touchID)
    /\ Sampled(z, <<>>)
    /\ medianFilterX' = <<0, 0, 0, 0, 0>>
    /\ medianFilterY' = <<0, 0, 0, 0, 0>>
    /\ iirFilterX' = 0
    /\ iirFilterY' = 0
    /\ lastPosX' = 0
    /\ lastPosY' = 0
    /\ UNCHANGED <<touchID, allocated>>

\* ... for a sample that is not above the threshold.
ReadTouchRelease(z) ==
    /\ touchPoints' = [touchPoints EXCEPT !.ID = releasedID(touchPoints.ID)]
    /\ touchResult' = noPoint
    /\ contactReads' = 0
    /\ Remember(FALSE, touchPoints'.ID, touchID)
    /\ Sampled(z, <<>>)
    /\ UNCHANGED <<touchID, medianFilterX, medianFilterY, iirFilterX,
                   iirFilterY, lastPosX, lastPosY, allocated>>

\* func (input touchInput) ReadTouch() []TouchPoint
ReadTouch ==
    /\ board = "pyportal"
    /\ \E point \in TouchSamples, z \in PressureSamples :
          IF z > 8192
          THEN IF touchPoints.ID = 0
               THEN \E more \in [1 .. 4 -> TouchSamples] :
                       ReadTouchFirst(point, z, more)
               ELSE ReadTouchMove(point, z)
          ELSE ReadTouchRelease(z)
    /\ UNCHANGED display
    /\ UNCHANGED pointer
    /\ OnlyTouch

\* func (input touchInput) ReadTouch() []TouchPoint, with samples from the
\* whole range of the converter; the five samples of a first touch are equal
\* (the finger comes down on one spot).
ReadTouchHeld ==
    /\ board = "pyportal"
    /\ \E point \in PanelSamples, z \in PressureSamples :
          IF z > 8192
          THEN IF touchPoints.ID = 0
               THEN ReadTouchFirst(point, z, [i \in 1 .. 4 |-> point])
               ELSE ReadTouchMove(point, z)
          ELSE ReadTouchRelease(z)
    /\ UNCHANGED display
    /\ UNCHANGED pointer
    /\ OnlyTouch

\* Raw positions of a finger that moves over the panel: 800 raw units apart
\* on one axis (the IIR filter halves that to diff exactly) and 2000 apart on
\* the other (more than diff, also when halved).
StepSamples == {[X |-> 35000, Y |-> 35000], [X |-> 35800, Y |-> 33000]}

\* func (input touchInput) ReadTouch() []TouchPoint, with the samples of a
\* moving finger.
ReadTouchNear ==
    /\ board = "pyportal"
    /\ \E point \in StepSamples, z \in PressureSamples :
          IF z > 8192
          THEN IF touchPoints.ID = 0
               THEN \E more \in [1 .. 4 -> StepSamples] :
                       ReadTouchFirst(point, z, more)
               ELSE ReadTouchMove(point, z)
          ELSE ReadTouchRelease(z)
    /\ UNCHANGED display
    /\ UNCHANGED pointer
    /\ OnlyTouch

\* windowListenEvents, case "mousedown"
MouseDown ==
    /\ board = "simulator"
    /\ touchID < MaxTouchID
    /\ \E pos \in MousePositions :
          touchPoints' = [ID |-> nextTouchID(touchID), X |-> pos.X, Y |-> pos.Y]
    /\ touchID' = nextTouchID(touchID)
    /\ allocated' = Append(allocated, touchID')
    /\ pointer' = [down |-> TRUE, event |-> "mousedown",
                   before |-> touchPoints, reads |-> {}]
    /\ UNCHANGED <<medianFilterX, medianFilterY, iirFilterX, iirFilterY,
                   lastPosX, lastPosY, display, touchResult, contactReads,
                   recent, sampled>>
    /\ OnlyTouch

\* windowListenEvents, case "mouseup"
MouseUp ==
    /\ board = "simulator"
    /\ touchPoints' = [ID |-> 0, X |-> 0, Y |-> 0]
    /\ pointer' = [down |-> FALSE, event |-> "mouseup",
                   before |-> touchPoints, reads |-> {}]
    /\ UNCHANGED <<touchID, medianFilterX, medianFilterY, iirFilterX,
                   iirFilterY, lastPosX, lastPosY, display, touchResult,
                   contactReads, recent, allocated, sampled>>
    /\ OnlyTouch

\* Mutant of mouseMoved: the coordinates are written without the test of the ID
mouseMovedAlways(point, pos) == [point EXCEPT !.X = pos.X, !.Y = pos.Y]

\* if screen.touches[0].ID != 0 { screen.touches[0].X = x; ...Y = y }
mouseMoved(point, pos) ==
    IF point.ID # 0 THEN [point EXCEPT !.X = pos.X, !.Y = pos.Y] ELSE point

\* windowListenEvents, case "mousemove"
MouseMove ==
    /\ board = "simulator"
    /\ \E pos \in MousePositions : touchPoints' = mouseMoved(touchPoints, pos)
    /\ pointer' = [pointer EXCEPT !.event = "mousemove",
                                  !.before = touchPoints]
    /\ UNCHANGED <<touchID, medianFilterX, medianFilterY, iirFilterX,
                   iirFilterY, lastPosX, lastPosY, display, touchResult,
                   contactReads, recent, allocated, sampled>>
    /\ OnlyTouch

\* sdltouch.ReadTouch of the simulator
SimReadTouch ==
    /\ board = "simulator"
    /\ touchResult' = IF touchPoints.ID # 0 THEN onePoint(touchPoints)
                      ELSE noPoint
    /\ Remember(touchPoints.ID # 0, touchPoints.ID, touchID)
    /\ pointer' = [pointer EXCEPT
                      !.reads = @ \cup {[n |-> touchResult'.n,
                                         ID |-> touchResult'.ID]}]
    /\ UNCHANGED <<touchID, touchPoints, medianFilterX, medianFilterY,
                   iirFilterX, iirFilterY, lastPosX, lastPosY, display,
                   contactReads, allocated, sampled>>
    /\ OnlyTouch

(***************************************************************************)
(* The simulator: the goroutine windowListenEvents parses the lines of the *)
(* window process and updates the key event queue and the touch point;     *)
(* the application thread calls Buttons.NextEvent and ReadTouch.  Each     *)
(* action is one step of one of the two, so that every interleaving of     *)
(* their statements occurs.                                                *)
(***************************************************************************)
\* The key codes the window process sends.
WindowKeys == {KeyA, KeyLeft}

\* Key lines the listener reads per run.
MaxKeyLines == 3

listenerReading == [pc |-> "read", cmd |-> "", key |-> 0, x |-> 0, y |-> 0]

appIdle == [pc |-> "idle", event |-> NoKeyEvent, empty |-> FALSE, n |-> 0,
            seen |-> {}, ID |-> 0, X |-> 0, Y |-> 0]

\* The zero value of screen and the two threads before their first step.
SimulatorZero ==
    /\ keyevents = <<>>
    /\ keyeventsLock = "free"
    /\ touches = [ID |-> 0, X |-> 0, Y |-> 0]
    /\ screenTouchID = 0
    /\ touchesLock = "free"
    /\ listener = listenerReading
    /\ app = appIdle
    /\ arrived = <<>>
    /\ returned = <<>>
    /\ touchHistory = {[ID |-> 0, X |-> 0, Y |-> 0]}

\* Mutant of canLock: Lock returns although the mutex is held
canLockAlways(lock) == TRUE

\* sync.Mutex.Lock returns once the mutex is free
canLock(lock) == lock = "free"

\* windowListenEvents, case "keypress", "keyrelease": the line is parsed
ListenKey ==
    /\ listener.pc = "read"
    /\ Len(arrived) < MaxKeyLines
    /\ \E code \in WindowKeys, cmd \in {"keypress", "keyrelease"} :
          listener' = [listenerReading EXCEPT
                          !.pc = "keyLock", !.cmd = cmd,
                          !.key = IF cmd = "keyrelease"
                                  THEN BitOr(code, keyReleased) ELSE code]
    /\ UNCHANGED <<keyevents, keyeventsLock, touches, screenTouchID,
                   touchesLock, app, arrived, returned, touchHistory>>
    /\ OnlySimulator

\* screen.keyeventsLock.Lock()
ListenKeyLock ==
    /\ listener.pc = "keyLock"
    /\ canLock(keyeventsLock)
    /\ keyeventsLock' = "listener"
    /\ listener' = [listener EXCEPT !.pc = "append"]
    /\ UNCHANGED <<keyevents, touches, screenTouchID, touchesLock, app,
                   arrived, returned, touchHistory>>
    /\ OnlySimulator

\* screen.keyevents = append(screen.keyevents, key)
ListenKeyAppend ==
    /\ listener.pc = "append"
    /\ keyevents' = Append(keyevents, listener.key)
    /\ arrived' = Append(arrived, listener.key)
    /\ listener' = [listener EXCEPT !.pc = "keyUnlock"]
    /\ UNCHANGED <<keyeventsLock, touches, screenTouchID, touchesLock, app,
                   returned, touchHistory>>
    /\ OnlySimulator

\* screen.keyeventsLock.Unlock()
ListenKeyUnlock ==
    /\ listener.pc = "keyUnlock"
    /\ keyeventsLock' = "free"
    /\ listener' = listenerReading
    /\ UNCHANGED <<keyevents, touches, screenTouchID, touchesLock, app,
                   arrived, returned, touchHistory>>
    /\ OnlySimulator

\* buttonsConfig.NextEvent: screen.keyeventsLock.Lock()
SimNextEventLock ==
    /\ app.pc \in {"idle", "returned"}
    /\ canLock(keyeventsLock)
    /\ keyeventsLock' = "app"
    /\ app' = [appIdle EXCEPT !.pc = "len", !.empty = (Len(keyevents) = 0)]
    /\ UNCHANGED <<keyevents, touches, screenTouchID, touchesLock, listener,
                   arrived, returned, touchHistory>>
    /\ OnlySimulator

\* if len(screen.keyevents) != 0
SimNextEventLen ==
    /\ app.pc = "len"
    /\ app' = IF Len(keyevents) # 0
              THEN [app EXCEPT !.pc = "take"]
              ELSE [app EXCEPT !.pc = "return", !.event = NoKeyEvent]
    /\ UNCHANGED <<keyevents, keyeventsLock, touches, screenTouchID,
                   touchesLock, listener, arrived, returned, touchHistory>>
    /\ OnlySimulator

\* event := screen.keyevents[0]
SimNextEventTake ==
    /\ app.pc = "take"
    /\ app' = [app EXCEPT !.pc = "copy", !.event = keyevents[1]]
    /\ UNCHANGED <<keyevents, keyeventsLock, touches, screenTouchID,
                   touchesLock, listener, arrived, returned, touchHistory>>
    /\ OnlySimulator

\* copy(screen.keyevents, screen.keyevents[1:])
SimNextEventCopy ==
    /\ app.pc = "copy"
    /\ keyevents' = Tail(keyevents) \o <<keyevents[Len(keyevents)]>>
    /\ app' = [app EXCEPT !.pc = "reslice", !.n = Len(keyevents)]
    /\ UNCHANGED <<keyeventsLock, touches, screenTouchID, touchesLock,
                   listener, arrived, returned, touchHistory>>
    /\ OnlySimulator

\* screen.keyevents = screen.keyevents[:len(screen.keyevents)-1]
SimNextEventReslice ==
    /\ app.pc = "reslice"
    /\ keyevents' = SubSeq(keyevents, 1, app.n - 1)
    /\ app' = [app EXCEPT !.pc = "return"]
    /\ UNCHANGED <<keyeventsLock, touches, screenTouchID, touchesLock,
                   listener, arrived, returned, touchHistory>>
    /\ OnlySimulator

\* return event / return NoKeyEvent, and the deferred Unlock
SimNextEventReturn ==
    /\ app.pc = "return"
    /\ keyeventsLock' = "free"
    /\ returned' = IF app.event # NoKeyEvent THEN Append(returned, app.event)
                   ELSE returned
    /\ app' = [app EXCEPT !.pc = "returned"]
    /\ UNCHANGED <<keyevents, touches, screenTouchID, touchesLock, listener,
                   arrived, touchHistory>>
    /\ OnlySimulator

\* windowListenEvents, case "mousedown", "mouseup", "mousemove": the line
\* is parsed
ListenMouse ==
    /\ listener.pc = "read"
    /\ \E cmd \in {"mousedown", "mouseup", "mousemove"},
          pos \in MousePositions :
          /\ cmd = "mousedown" => screenTouchID < MaxTouchID
          /\ listener' = [listenerReading EXCEPT
                             !.pc = "touchLock", !.cmd = cmd,
                             !.x = pos.X, !.y = pos.Y]
    /\ UNCHANGED <<keyevents, keyeventsLock, touches, screenTouchID,
                   touchesLock, app, arrived, returned, touchHistory>>
    /\ OnlySimulator

\* screen.touchesLock.Lock()
ListenTouchLock ==
    /\ listener.pc = "touchLock"
    /\ canLock(touchesLock)
    /\ touchesLock' = "listener"
    /\ listener' = [listener EXCEPT !.pc = listener.cmd]
    /\ UNCHANGED <<keyevents, keyeventsLock, touches, screenTouchID, app,
                   arrived, returned, touchHistory>>
    /\ OnlySimulator

\* case "mousedown": screen.touchID++; screen.touches[0] = TouchPoint{...}
ListenMouseDown ==
    /\ listener.pc = "mousedown"
    /\ screenTouchID' = nextTouchID(screenTouchID)
    /\ touches' = [ID |-> screenTouchID', X |-> listener.x, Y |-> listener.y]
    /\ touchHistory' = touchHistory \cup {touches'}
    /\ listener' = [listener EXCEPT !.pc = "touchUnlock"]
    /\ UNCHANGED <<keyevents, keyeventsLock, touchesLock, app, arrived,
                   returned>>
    /\ OnlySimulator

\* case "mouseup": screen.touches[0] = TouchPoint{}
ListenMouseUp ==
    /\ listener.pc = "mouseup"
    /\ touches' = [ID |-> 0, X |-> 0, Y |-> 0]
    /\ touchHistory' = touchHistory \cup {touches'}
    /\ listener' = [listener EXCEPT !.pc = "touchUnlock"]
    /\ UNCHANGED <<keyevents, keyeventsLock, screenTouchID, touchesLock, app,
                   arrived, returned>>
    /\ OnlySimulator

\* case "mousemove": if screen.touches[0].ID != 0 { screen.touches[0].X = x
ListenMouseMoveX ==
    /\ listener.pc = "mousemove"
    /\ IF touches.ID # 0
       THEN /\ touches' = [touches EXCEPT !.X = listener.x]
            /\ listener' = [listener EXCEPT !.pc = "moveY"]
       ELSE /\ UNCHANGED touches
            /\ listener' = [listener EXCEPT !.pc = "touchUnlock"]
    /\ UNCHANGED <<keyevents, keyeventsLock, screenTouchID, touchesLock, app,
                   arrived, returned, touchHistory>>
    /\ OnlySimulator

\* screen.touches[0].Y = y }
ListenMouseMoveY ==
    /\ listener.pc = "moveY"
    /\ touches' = [touches EXCEPT !.Y = listener.y]
    /\ touchHistory' = touchHistory \cup {touches'}
    /\ listener' = [listener EXCEPT !.pc = "touchUnlock"]
    /\ UNCHANGED <<keyevents, keyeventsLock, screenTouchID, touchesLock, app,
                   arrived, returned>>
    /\ OnlySimulator

\* screen.touchesLock.Unlock()
ListenTouchUnlock ==
    /\ listener.pc = "touchUnlock"
    /\ touchesLock' = "free"
    /\ listener' = listenerReading
    /\ UNCHANGED <<keyevents, keyeventsLock, touches, screenTouchID, app,
                   arrived, returned, touchHistory>>
    /\ OnlySimulator

\* sdltouch.ReadTouch: screen.touchesLock.Lock()
SimReadTouchLock ==
    /\ app.pc \in {"idle", "returned", "observed"}
    /\ canLock(touchesLock)
    /\ touchesLock' = "app"
    /\ app' = [appIdle EXCEPT !.pc = "check"]
    /\ UNCHANGED <<keyevents, keyeventsLock, touches, screenTouchID,
                   listener, arrived, returned, touchHistory>>
    /\ OnlySimulator

\* if screen.touches[0].ID != 0 { return screen.touches[:1] }; return nil.
\* The slice that is returned has length app.n and shares the array of
\* screen.touches: no field of the point is copied here.
SimReadTouchCheck ==
    /\ app.pc = "check"
    /\ app' = [app EXCEPT !.pc = "touchReturn",
                          !.n = IF touches.ID # 0 THEN 1 ELSE 0]
    /\ UNCHANGED <<keyevents, keyeventsLock, touches, screenTouchID,
                   touchesLock, listener, arrived, returned, touchHistory>>
    /\ OnlySimulator

\* The deferred Unlock, and the return to the caller.
SimReadTouchReturn ==
    /\ app.pc = "touchReturn"
    /\ touchesLock' = "free"
    /\ app' = [app EXCEPT !.pc = IF app.n = 1 THEN "observe" ELSE "returned"]
    /\ UNCHANGED <<keyevents, keyeventsLock, touches, screenTouchID,
                   listener, arrived, returned, touchHistory>>
    /\ OnlySimulator

\* The caller reads one field of the returned point, that is of
\* screen.touches[0], in the order it likes.
ObservePoint ==
    /\ app.pc = "observe"
    /\ \E field \in {"ID", "X", "Y"} \ app.seen :
          LET seen == app.seen \cup {field}
          IN  app' = [app EXCEPT
                         !.seen = seen,
                         !.ID = IF field = "ID" THEN touches.ID ELSE @,
                         !.X = IF field = "X" THEN touches.X ELSE @,
                         !.Y = IF field = "Y" THEN touches.Y ELSE @,
                         !.pc = IF seen = {"ID", "X", "Y"} THEN "observed"
                                ELSE "observe"]
    /\ UNCHANGED <<keyevents, keyeventsLock, touches, screenTouchID,
                   touchesLock, listener, arrived, returned, touchHistory>>
    /\ OnlySimulator

(***************************************************************************)
(* Battery smoothing.  The instantaneous value is approximatePPM of the    *)
(* source; the smoothing and the hysteresis that use it are described by   *)
(* the specification of the layer (section 4.3, step 4) only.              *)
(***************************************************************************)
\* Mutant of approximatePPM: the offset is left in thousandths of a percent
\* (the factor 10 is missing)
approximatePPMThousandths(approx, mv) ==
    IF mv <= approx.voltages[1] * 1000
    THEN 0
    ELSE LET above == {i \in 1 .. 6 : approx.voltages[i] * 1000 > mv}
         IN  IF above = {}
             THEN 1000000
             ELSE LET i == CHOOSE i \in above : \A k \in above : i <= k
                      voltStart == approx.voltages[i - 1]
                      voltEnd == approx.voltages[i]
                      percentStart == approx.percents[i - 1]
                      percentEnd == approx.percents[i]
                      voltOffset == mv - voltStart * 1000
                      voltDiff == voltEnd - voltStart
                      percentDiff == Int8(percentEnd - percentStart)
                      percentOffset ==
                          (voltOffset * percentDiff) \div voltDiff
                  IN  percentStart * 10000 + percentOffset

\* func (approx *batteryApproximation) approximatePPM(microvolts uint32) int32
approximatePPM(approx, mv) ==
    IF mv <= approx.voltages[1] * 1000
    THEN 0
    ELSE LET above == {i \in 1 .. 6 : approx.voltages[i] * 1000 > mv}
         IN  IF above = {}
             THEN 1000000
             ELSE LET i == CHOOSE i \in above : \A k \in above : i <= k
                      voltStart == approx.voltages[i - 1]
                      voltEnd == approx.voltages[i]
                      percentStart == approx.percents[i - 1]
                      percentEnd == approx.percents[i]
                      voltOffset == mv - voltStart * 1000
                      voltDiff == voltEnd - voltStart
                      percentDiff == Int8(percentEnd - percentStart)
                      percentOffset ==
                          (voltOffset * percentDiff * 10) \div voltDiff
                  IN  percentStart * 10000 + percentOffset

\* The microvolts at which the percentage of the lithium table steps up to
\* the next whole percent, and the values up to NearDelta below each.
StepMicrovolts ==
    LET v == lithumBatteryApproximation.voltages
        p == lithumBatteryApproximation.percents
    IN  UNION {{v[i] * 1000
                  + ((k * (v[i + 1] - v[i]) * 1000 + (p[i + 1] - p[i]) - 1)
                       \div (p[i + 1] - p[i])) - d :
                    k \in 0 .. p[i + 1] - p[i], d \in 0 .. NearDelta} :
               i \in 1 .. 5}

\* lithumBatteryApproximation.approximate(microvolts) and
\* lithumBatteryApproximation.approximatePPM(microvolts) of one value
LookUpBoth ==
    /\ \E mv \in MicrovoltSamples \cup StepMicrovolts :
          looked' = [done |-> TRUE, microvolts |-> mv,
                     percent |-> approximate(lithumBatteryApproximation, mv),
                     ppm |-> approximatePPM(lithumBatteryApproximation, mv)]
    /\ UNCHANGED <<hwVars, board, btnVars, batVars, touchVars, simVars, gaugeVars,
                   keyEvent, added, fed>>

\* smoothed = (smoothed*255 + instantaneous)/256
smoothedOf(old, instantaneous) == (old * 255 + instantaneous) \div 256

\* The candidate integer percent derived from the smoothed value.
candidateOf(ppm) == ppm \div 10000

\* Mutant of reportedOf: the reported percent follows every candidate
reportedFollows(last, candidate) == candidate

\* Mutant of reportedOf: a lower candidate is followed only from two points
reportedSymmetric(last, candidate) ==
    IF candidate < last - 1 \/ candidate > last + 1 THEN candidate ELSE last

\* only overwrite last_percent if the candidate is less than last_percent or
\* greater than last_percent + 1
reportedOf(last, candidate) ==
    IF candidate < last \/ candidate > last + 1 THEN candidate ELSE last

\* The voltages of the smoothed Status calls: below the table, inside it
\* (50.8333 percent) and above it.
GaugeMicrovolts == {3400000, 3755000, 4200000}

\* The smoothed values the runs start from: the ends of the scale and values
\* on either side of the boundary between 50 and 51 percent.
GaugeSmoothed == {0, 509000, 509900, 510100, 1000000}

\* Smoothed Status calls per run.
MaxStatusCalls == 6

\* One percentage point, in ppm.
OnePoint == 10000

\* The history of a run: the number of calls; the reported percent before the
\* last call and the candidate of the last call; and the span: the calls
\* since the smoothed value last stayed within less than one percentage
\* point, with the lowest and highest smoothed value in it, the reported
\* percent when it began and the reported values since then, in order.
GaugeStart(ppm, reported) ==
    [calls |-> 0, before |-> reported, candidate |-> candidateOf(ppm),
     low |-> ppm, high |-> ppm, start |-> reported, reports |-> <<reported>>]

\* Before smoothing is engaged.
GaugeZero ==
    /\ smoothed = 0
    /\ lastPercent = 0
    /\ gauge = GaugeStart(0, 0)

\* Smoothing is engaged: the reported percent is the candidate of the smoothed
\* value or one below it (what the hysteresis leaves after any call).
GaugeEngaged ==
    /\ smoothed \in GaugeSmoothed
    /\ lastPercent \in {p \in 0 .. 100 :
                          candidateOf(smoothed) \in {p, p + 1}}
    /\ gauge = GaugeStart(smoothed, lastPercent)

\* Status with smoothing: steps 3 and 4 of the operation.
SmoothedStatus ==
    /\ gauge.calls < MaxStatusCalls
    /\ \E mv \in GaugeMicrovolts :
          LET instantaneous == approximatePPM(lithumBatteryApproximation, mv)
              ppm == smoothedOf(smoothed, instantaneous)
              candidate == candidateOf(ppm)
              reported == reportedOf(lastPercent, candidate)
              low == IF ppm < gauge.low THEN ppm ELSE gauge.low
              high == IF ppm > gauge.high THEN ppm ELSE gauge.high
              within == high - low < OnePoint
              reports == IF within THEN gauge.reports ELSE <<lastPercent>>
          IN  /\ smoothed' = ppm
              /\ lastPercent' = reported
              /\ gauge' = [calls |-> gauge.calls + 1,
                           before |-> lastPercent,
                           candidate |-> candidate,
                           low |-> IF within THEN low ELSE ppm,
                           high |-> IF within THEN high ELSE ppm,
                           start |-> IF within THEN gauge.start
                                     ELSE lastPercent,
                           reports |-> IF reported # lastPercent
                                       THEN Append(reports, reported)
                                       ELSE reports]
    /\ OnlyGauge

(***************************************************************************)
(* Single functions under every input: the KeyEvent encoding and the       *)
(* median filter.                                                          *)
(***************************************************************************)
\* The values of bits 8..14 of a KeyEvent, which carry no meaning: all
\* clear, the lowest, the highest, all set.
SpareBits == {0, 1, 64, 127}

noKeyEvent == [stage |-> "none", code |-> 0, release |-> FALSE, spare |-> 0,
               event |-> NoKeyEvent, key |-> NoKey, pressed |-> TRUE]

\* No call of iirFilterX.add yet. op: "seed" for add(x, true), "feed" for
\* add(x, false); x: the value added; before: the state the call found;
\* count: the calls add(x, false) in a row with this same x.
fedNothing == [op |-> "none", x |-> 0, before |-> 0, count |-> 0]

\* Before the first lookup.
lookedNothing == [done |-> FALSE, microvolts |-> 0, percent |-> 0, ppm |-> 0]

UnitZero ==
    /\ keyEvent = noKeyEvent
    /\ added = <<>>
    /\ fed = fedNothing
    /\ looked = lookedNothing

\* A key code (type Key uint8), whether the key went up, and the spare bits.
KeyEventInputs ==
    /\ keyEvent \in {[noKeyEvent EXCEPT !.stage = "input", !.code = k,
                                        !.release = r, !.spare = m] :
                        k \in 0 .. 255, r \in BOOLEAN, m \in SpareBits}
    /\ added = <<>>
    /\ fed = fedNothing
    /\ looked = lookedNothing

\* e := KeyEvent(code); if released { e |= keyReleased }; e.Key(); e.Pressed()
DecodeKeyEvent ==
    /\ keyEvent.stage = "input"
    /\ LET e == BitOr(keyEvent.code + 256 * keyEvent.spare,
                      IF keyEvent.release THEN keyReleased ELSE 0)
       IN  keyEvent' = [keyEvent EXCEPT !.stage = "decoded", !.event = e,
                                        !.key = Key(e),
                                        !.pressed = Pressed(e)]
    /\ UNCHANGED <<hwVars, board, btnVars, batVars, touchVars, simVars, gaugeVars,
                   added, fed, looked>>

\* The values fed to the median filter: 1 .. MedianMax, so that five of them
\* come in every order and with every pattern of ties.
MedianMax == 5

\* medianFilterX.add(n)
MedianAdd ==
    /\ \E n \in 1 .. MedianMax :
          /\ medianFilterX' = medianAdd(medianFilterX, n)
          /\ added' = LET all == Append(added, n)
                      IN  IF Len(all) > 5 THEN Tail(all) ELSE all
    /\ UNCHANGED <<hwVars, board, btnVars, batVars, simVars, gaugeVars, keyEvent,
                   fed, looked, touchID, touchPoints, medianFilterY, iirFilterX,
                   iirFilterY, lastPosX, lastPosY, display, touchResult,
                   contactReads, recent, allocated,
                   sampled, pointer>>

\* The values added to the IIR filter: raw values of the converter of both
\* parities, next to each other and further apart, and the lowest one.
IIRInputs == {0, 1, 2, 9, 10, 40}

\* The calls add(x, false) in a row with one x that are counted: more than
\* the halvings that the largest distance between two inputs takes.
MaxFeeds == 7

\* The frame of a call of iirFilterX.add
OnlyIIR ==
    UNCHANGED <<hwVars, board, btnVars, batVars, simVars, gaugeVars, keyEvent, added,
                looked, touchID, touchPoints, medianFilterX, medianFilterY,
                iirFilterY, lastPosX, lastPosY, display, touchResult,
                contactReads, recent, allocated,
                   sampled, pointer>>

\* iirFilterX.add(x, true)
IIRSeed ==
    /\ \E x \in IIRInputs :
          /\ iirFilterX' = iirAdd(iirFilterX, x, TRUE)
          /\ fed' = [op |-> "seed", x |-> x, before |-> iirFilterX,
                     count |-> 0]
    /\ OnlyIIR

\* iirFilterX.add(x, false)
IIRFeed ==
    /\ \E x \in IIRInputs :
          /\ iirFilterX' = iirAdd(iirFilterX, x, FALSE)
          /\ fed' = [op |-> "feed", x |-> x, before |-> iirFilterX,
                     count |-> IF fed.op = "feed" /\ fed.x = x
                               THEN Min(fed.count + 1, MaxFeeds)
                               ELSE 1]
    /\ OnlyIIR

(***************************************************************************)
(* The PineTime peripherals (touch controller, watchdog, SPI bus), the     *)
(* Game Boy Advance display and the sensors of the simulator.              *)
(***************************************************************************)
\* Before the first ReadInput of the single button.
watchdogIdle == [sinceReload |-> 0, held |-> 0]

\* Before the first getSPI0.
spiBusIdle == [calls |-> 0, configures |-> 0]

\* Before the first DrawBitmap.
drawnNothing == [op |-> "none", x |-> 0, y |-> 0, width |-> 0, height |-> 0,
                 err |-> "nil", written |-> {}]

\* Sensors = &simulatedSensors{}: the zero value of the struct (accelSource
\* stays 0 here).  op, which and result are the last call and what it
\* returned, before the accel, steps and temp that it found.
sensorsZero == [configured |-> 0, stepsSource |-> 0, accel |-> <<0, 0, 0>>,
                steps |-> 0, temp |-> 0, op |-> "none", which |-> 0,
                result |-> "nil", before |-> <<<<0, 0, 0>>, 0, 0>>]

\* The zero values of the package-level variables.
HardwareZero ==
    /\ latch = FALSE
    /\ touchInitialized = FALSE
    /\ watchdog = watchdogIdle
    /\ spi0Configured = FALSE
    /\ spiBus = spiBusIdle
    /\ drawn = drawnNothing
    /\ sensors = sensorsZero

\* The 12-bit coordinates the touch controller delivers: the corners of the
\* panel, the first value beyond it and the largest value.
PineCoordinates == {0, 239, 240, 4095}

\* if x >= 240 { x = 240 }
clampPine(x) == IF x >= 240 THEN 240 ELSE x

\* TP_INT goes high: the controller has a touch to report.
TouchInterrupt ==
    /\ board = "pinetime"
    /\ ~latch
    /\ latch' = TRUE
    /\ UNCHANGED <<touchInitialized, watchdog, spi0Configured, spiBus, drawn,
                   sensors>>
    /\ UNCHANGED <<board, btnVars, batVars, touchVars, simVars, gaugeVars,
                   unitVars>>

\* func (input touchInput) ReadTouch() []TouchPoint of the PineTime; num is
\* touchData[1] & 0x0f, x and y the coordinates of touchData[2..5].
ReadTouchPineTime ==
    /\ board = "pinetime"
    /\ IF latch
       THEN \E num \in 0 .. 1, x \in PineCoordinates, y \in PineCoordinates :
               LET id == IF num = 0 THEN nextTouchID(touchID) ELSE touchID
                   point == [ID |-> id, X |-> clampPine(x), Y |-> clampPine(y)]
               IN  /\ id <= MaxTouchID + 1
                   /\ num # 0 => contactReads < MaxContactReads
                   /\ touchInitialized' = TRUE
                   /\ touchID' = id
                   /\ latch' = IF num = 0 THEN FALSE ELSE latch
                   /\ touchPoints' = point
                   /\ touchResult' = onePoint(point)
                   /\ contactReads' = IF num = 0 THEN 0 ELSE contactReads + 1
                   /\ Sampled(num, <<[X |-> x, Y |-> y]>>)
       ELSE /\ touchResult' = noPoint
            /\ Sampled(0, <<>>)
            /\ UNCHANGED <<touchInitialized, touchID, latch, touchPoints,
                           contactReads>>
    /\ UNCHANGED <<medianFilterX, medianFilterY, iirFilterX, iirFilterY,
                   lastPosX, lastPosY, display, recent, allocated,
                   pointer>>
    /\ UNCHANGED <<watchdog, spi0Configured, spiBus, drawn, sensors>>
    /\ UNCHANGED <<board, btnVars, batVars, simVars, gaugeVars, unitVars>>

\* const ( displayWidth = 240; displayHeight = 160 ) of the Game Boy Advance
displayWidth == 240
displayHeight == 160

\* The positions and the sizes of the bitmaps drawn: at, just inside and just
\* outside every edge of the display.
DrawPositionsX == {-1, 0, 237, 238, 239, 240}
DrawPositionsY == {-1, 0, 157, 158, 159, 160}
DrawSizes == {0, 1, 2, 3}

\* Mutant of outOfBounds: the bottom edge is not tested
outOfBoundsNoHeight(x, y, width, height) ==
    x < 0 \/ y < 0 \/ x + width > displayWidth

\* if x < 0 || y < 0 || int(x)+width > displayWidth ||
\*     int(y)+height > displayHeight
outOfBounds(x, y, width, height) ==
    x < 0 \/ y < 0 \/ x + width > displayWidth \/ y + height > displayHeight

\* The indices of displayFrameBuffer that the two loops of DrawBitmap write.
writtenBy(x, y, width, height) ==
    {(y + bufY) * 240 + x + bufX :
        bufY \in 0 .. height - 1, bufX \in 0 .. width - 1}

\* func (d gbaDisplay) DrawBitmap(x, y int16, buf pixel.Image[pixel.RGB555])
DrawBitmap ==
    /\ board = "gameboy-advance"
    /\ \E x \in DrawPositionsX, y \in DrawPositionsY,
          width \in DrawSizes, height \in DrawSizes :
          drawn' = IF outOfBounds(x, y, width, height)
                   THEN [op |-> "DrawBitmap", x |-> x, y |-> y,
                         width |-> width, height |-> height,
                         err |-> "errOutOfBounds", written |-> {}]
                   ELSE [op |-> "DrawBitmap", x |-> x, y |-> y,
                         width |-> width, height |-> height,
                         err |-> "nil",
                         written |-> writtenBy(x, y, width, height)]
    /\ UNCHANGED <<latch, touchInitialized, watchdog, spi0Configured, spiBus,
                   sensors>>
    /\ UNCHANGED <<board, btnVars, batVars, touchVars, simVars, gaugeVars,
                   unitVars>>

\* Bits of drivers.Measurement (Voltage = 1 << iota, Temperature, Humidity,
\* Pressure, Distance, Acceleration, ...)
Temperature == 2
Humidity == 4
Acceleration == 32

MeasurementBits == {Temperature, Humidity, Acceleration}

\* The values of the which parameter: every combination of the three bits.
Measurements == {0, 2, 4, 6, 32, 34, 36, 38}

\* What rand.Int31n(30_000) and rand.Int31n(200) return: the two ends.
AccelNoise == {0, 29999}
TempNoise == {0, 199}

\* The step counts that the window process sends.
StepCounts == {0, 7}

\* The sensor values of s
sensorValues(s) == <<s.accel, s.steps, s.temp>>

\* windowListenEvents, case "steps": Sensors.stepsSource = n
ListenSteps ==
    /\ board = "simulator"
    /\ sensors.result # "panic"
    /\ \E n \in StepCounts \ {sensors.stepsSource} :
          sensors' = [sensors EXCEPT !.stepsSource = n]
    /\ UNCHANGED <<latch, touchInitialized, watchdog, spi0Configured, spiBus,
                   drawn>>
    /\ UNCHANGED <<board, btnVars, batVars, touchVars, simVars, gaugeVars,
                   unitVars>>

\* func (s *simulatedSensors) Configure(which drivers.Measurement) error
ConfigureSensors ==
    /\ board = "simulator"
    /\ sensors.result # "panic"
    /\ \E which \in Measurements :
          sensors' = [sensors EXCEPT !.configured = which,
                                     !.op = "Configure", !.which = which,
                                     !.result = "nil",
                                     !.before = sensorValues(sensors)]
    /\ UNCHANGED <<latch, touchInitialized, watchdog, spi0Configured, spiBus,
                   drawn>>
    /\ UNCHANGED <<board, btnVars, batVars, touchVars, simVars, gaugeVars,
                   unitVars>>

\* Mutant of notConfigured: only a request with no configured sensor at all
\* is refused
notConfiguredAtAll(which, configured) ==
    which # 0 /\ BitAnd(configured, which) = 0

\* if which != s.configured&which
notConfigured(which, configured) == which # BitAnd(configured, which)

\* func (s *simulatedSensors) Update(which drivers.Measurement) error; the
\* program ends with the panic.
UpdateSensors ==
    /\ board = "simulator"
    /\ sensors.result # "panic"
    /\ \E which \in Measurements :
          IF notConfigured(which, sensors.configured)
          THEN sensors' = [sensors EXCEPT !.op = "Update", !.which = which,
                                          !.result = "panic",
                                          !.before = sensorValues(sensors)]
          ELSE \E nx \in AccelNoise, ny \in AccelNoise, nz \in AccelNoise,
                  nt \in TempNoise :
                  sensors' =
                      [sensors EXCEPT
                          !.op = "Update", !.which = which, !.result = "nil",
                          !.before = sensorValues(sensors),
                          !.accel = IF BitAnd(which, Acceleration) # 0
                                    THEN <<nx - 15000, ny - 15000, nz - 15000>>
                                    ELSE @,
                          !.steps = IF BitAnd(which, Acceleration) # 0
                                    THEN sensors.stepsSource ELSE @,
                          !.temp = IF BitAnd(which, Temperature) # 0
                                   THEN 20000 + nt - 100 ELSE @]
    /\ UNCHANGED <<latch, touchInitialized, watchdog, spi0Configured, spiBus,
                   drawn>>
    /\ UNCHANGED <<board, btnVars, batVars, touchVars, simVars, gaugeVars,
                   unitVars>>

\* Calls of getSPI0 per run.
MaxSPICalls == 3

\* func getSPI0() machine.SPI of the PineTime: inside 'if !spi0Configured'
\* the pins and the bus are configured and the flash is sent to deep
\* power-down; no statement assigns spi0Configured.  spiBus counts the calls
\* and the configurations of the bus.
GetSPI0 ==
    /\ board = "pinetime"
    /\ spiBus.calls < MaxSPICalls
    /\ spiBus' = [calls |-> spiBus.calls + 1,
                  configures |-> IF ~spi0Configured
                                 THEN spiBus.configures + 1
                                 ELSE spiBus.configures]
    /\ UNCHANGED <<latch, touchInitialized, watchdog, spi0Configured, drawn,
                   sensors>>
    /\ UNCHANGED <<board, btnVars, batVars, touchVars, simVars, gaugeVars,
                   unitVars>>

(***************************************************************************)
(* Specifications: one per component.                                      *)
(***************************************************************************)
InitButtons ==
    /\ board \in Boards
    /\ ButtonsZero
    /\ BatteryZero
    /\ TouchZero
    /\ SimulatorZero
    /\ HardwareZero
    /\ GaugeZero
    /\ UnitZero

NextButtons ==
    \/ ReadInputGPIO
    \/ ReadInputPyBadge
    \/ ReadInputGBA
    \/ NextEvent

SpecButtons == InitButtons /\ [][NextButtons]_vars

\* The trackers of all boards with keys, the single button included.
InitKeys ==
    /\ board \in Boards \cup {"pinetime"}
    /\ ButtonsZero
    /\ BatteryZero
    /\ TouchZero
    /\ SimulatorZero
    /\ HardwareZero
    /\ GaugeZero
    /\ UnitZero

NextKeys ==
    \/ ReadInputGPIO
    \/ ReadInputPyBadge
    \/ ReadInputGBA
    \/ NextEvent
    \/ ReadInputSingle
    \/ NextEventSingle

SpecKeys == InitKeys /\ [][NextKeys]_vars

\* The Game Boy Advance tracker over all 16 bits of state and previousState.
InitKeyInput ==
    /\ board = "gameboy-advance"
    /\ ButtonsZero
    /\ BatteryZero
    /\ TouchZero
    /\ SimulatorZero
    /\ HardwareZero
    /\ GaugeZero
    /\ UnitZero

NextKeyInput ==
    \/ ReadInputGBAWide
    \/ NextEvent

SpecKeyInput == InitKeyInput /\ [][NextKeyInput]_vars

InitBattery ==
    /\ board \in {"pinetime", "pybadge"}
    /\ ButtonsZero
    /\ BatteryZero
    /\ TouchZero
    /\ SimulatorZero
    /\ HardwareZero
    /\ GaugeZero
    /\ UnitZero

NextBattery ==
    \/ TestBatteryApprox
    \/ PineTimeStatus
    \/ PyBadgeStatus

SpecBattery == InitBattery /\ [][NextBattery]_vars

InitTouch ==
    /\ board \in {"pyportal", "simulator"}
    /\ ButtonsZero
    /\ BatteryZero
    /\ TouchZero
    /\ SimulatorZero
    /\ HardwareZero
    /\ GaugeZero
    /\ UnitZero

NextTouch ==
    \/ ConfigureDisplay
    \/ SetRotation
    \/ ReadTouch
    \/ MouseDown
    \/ MouseUp
    \/ MouseMove
    \/ SimReadTouch

SpecTouch == InitTouch /\ [][NextTouch]_vars

\* The PyPortal touch screen over the whole range of raw positions.
InitTouchRange ==
    /\ board = "pyportal"
    /\ ButtonsZero
    /\ BatteryZero
    /\ TouchZero
    /\ SimulatorZero
    /\ HardwareZero
    /\ GaugeZero
    /\ UnitZero

NextTouchRange ==
    \/ ConfigureDisplay
    \/ SetRotation
    \/ ReadTouchHeld

SpecTouchRange == InitTouchRange /\ [][NextTouchRange]_vars

\* The PyPortal touch screen under a moving finger.
InitTouchStep ==
    /\ board = "pyportal"
    /\ ButtonsZero
    /\ BatteryZero
    /\ TouchZero
    /\ SimulatorZero
    /\ HardwareZero
    /\ GaugeZero
    /\ UnitZero

NextTouchStep ==
    \/ ConfigureDisplay
    \/ ReadTouchNear

SpecTouchStep == InitTouchStep /\ [][NextTouchStep]_vars

\* The key event queue of the simulator.
InitSimKeys ==
    /\ board = "simulator"
    /\ ButtonsZero
    /\ BatteryZero
    /\ TouchZero
    /\ SimulatorZero
    /\ HardwareZero
    /\ GaugeZero
    /\ UnitZero

NextSimKeys ==
    \/ ListenKey
    \/ ListenKeyLock
    \/ ListenKeyAppend
    \/ ListenKeyUnlock
    \/ SimNextEventLock
    \/ SimNextEventLen
    \/ SimNextEventTake
    \/ SimNextEventCopy
    \/ SimNextEventReslice
    \/ SimNextEventReturn

SpecSimKeys == InitSimKeys /\ [][NextSimKeys]_vars

\* The touch point of the simulator.
InitSimTouch ==
    /\ board = "simulator"
    /\ ButtonsZero
    /\ BatteryZero
    /\ TouchZero
    /\ SimulatorZero
    /\ HardwareZero
    /\ GaugeZero
    /\ UnitZero

NextSimTouch ==
    \/ ListenMouse
    \/ ListenTouchLock
    \/ ListenMouseDown
    \/ ListenMouseUp
    \/ ListenMouseMoveX
    \/ ListenMouseMoveY
    \/ ListenTouchUnlock
    \/ SimReadTouchLock
    \/ SimReadTouchCheck
    \/ SimReadTouchReturn
    \/ ObservePoint

SpecSimTouch == InitSimTouch /\ [][NextSimTouch]_vars

\* The smoothed battery percentage.
InitGauge ==
    /\ board \in {"pinetime", "pybadge"}
    /\ ButtonsZero
    /\ BatteryZero
    /\ TouchZero
    /\ SimulatorZero
    /\ HardwareZero
    /\ GaugeEngaged
    /\ UnitZero

NextGauge ==
    \/ SmoothedStatus

SpecGauge == InitGauge /\ [][NextGauge]_vars

\* The KeyEvent encoding over every key code.
InitKeyEvent ==
    /\ board \in Boards
    /\ ButtonsZero
    /\ BatteryZero
    /\ TouchZero
    /\ SimulatorZero
    /\ HardwareZero
    /\ GaugeZero
    /\ KeyEventInputs

NextKeyEvent ==
    \/ DecodeKeyEvent

SpecKeyEvent == InitKeyEvent /\ [][NextKeyEvent]_vars

\* The median filter over every sequence of values.
InitMedian ==
    /\ board = "pyportal"
    /\ ButtonsZero
    /\ BatteryZero
    /\ TouchZero
    /\ SimulatorZero
    /\ HardwareZero
    /\ GaugeZero
    /\ UnitZero

NextMedian ==
    \/ MedianAdd

SpecMedian == InitMedian /\ [][NextMedian]_vars

\* The IIR filter from every state that calls of add leave behind.
InitIIR ==
    /\ board = "pyportal"
    /\ ButtonsZero
    /\ BatteryZero
    /\ TouchZero
    /\ SimulatorZero
    /\ HardwareZero
    /\ GaugeZero
    /\ UnitZero

NextIIR ==
    \/ IIRSeed
    \/ IIRFeed

SpecIIR == InitIIR /\ [][NextIIR]_vars

\* The percent and the parts-per-million lookup of one voltage.
InitPPM ==
    /\ board \in {"pinetime", "pybadge"}
    /\ ButtonsZero
    /\ BatteryZero
    /\ TouchZero
    /\ SimulatorZero
    /\ HardwareZero
    /\ GaugeZero
    /\ UnitZero

NextPPM ==
    \/ LookUpBoth

SpecPPM == InitPPM /\ [][NextPPM]_vars

\* The touch screen and the SPI bus of the PineTime; var touchID uint32 = 1.
InitPineTouch ==
    /\ board = "pinetime"
    /\ ButtonsZero
    /\ BatteryZero
    /\ touchID = 1
    /\ touchPoints = [ID |-> 0, X |-> 0, Y |-> 0]
    /\ medianFilterX = <<0, 0, 0, 0, 0>>
    /\ medianFilterY = <<0, 0, 0, 0, 0>>
    /\ iirFilterX = 0
    /\ iirFilterY = 0
    /\ lastPosX = 0
    /\ lastPosY = 0
    /\ display = [nil |-> TRUE, rotation |-> Rotation0]
    /\ touchResult = noPoint
    /\ contactReads = 0
    /\ recent = <<>>
    /\ allocated = <<>>
    /\ sampled = [z |-> 0, points |-> <<>>]
    /\ pointer = pointerIdle
    /\ SimulatorZero
    /\ HardwareZero
    /\ GaugeZero
    /\ UnitZero

NextPineTouch ==
    \/ TouchInterrupt
    \/ ReadTouchPineTime
    \/ GetSPI0

SpecPineTouch == InitPineTouch /\ [][NextPineTouch]_vars

\* The display of the Game Boy Advance.
InitDraw ==
    /\ board = "gameboy-advance"
    /\ ButtonsZero
    /\ BatteryZero
    /\ TouchZero
    /\ SimulatorZero
    /\ HardwareZero
    /\ GaugeZero
    /\ UnitZero

NextDraw ==
    \/ DrawBitmap

SpecDraw == InitDraw /\ [][NextDraw]_vars

\* The sensors of the simulator.
InitSensors ==
    /\ board = "simulator"
    /\ ButtonsZero
    /\ BatteryZero
    /\ TouchZero
    /\ SimulatorZero
    /\ HardwareZero
    /\ GaugeZero
    /\ UnitZero

NextSensors ==
    \/ ListenSteps
    \/ ConfigureSensors
    \/ UpdateSensors

SpecSensors == InitSensors /\ [][NextSensors]_vars

(***************************************************************************)
(* Properties of the button trackers.                                      *)
(***************************************************************************)
\* The changes that were pending right after the last ReadInput.
sampledChange == BitXor(state, sampledPrevious)

\* The changes that were still pending right before the last ReadInput.
pendingBefore == BitXor(sampledOld, sampledPrevious)

\* The key events (values other than NoKeyEvent) returned since the last
\* ReadInput.
KeyEventCount ==
    Cardinality({k \in DOMAIN drained : drained[k].event # NoKeyEvent})

drainedIndices == {drained[k].index : k \in DOMAIN drained}

drainComplete == lastCall.op = "NextEvent" /\ lastCall.event = NoKeyEvent

C2_AscendingOrder ==
    \A k \in DOMAIN drained :
        LET i == drained[k].index
        IN  /\ Bit(sampledChange, i) = 1
            /\ \A j \in 0 .. i - 1 :
                  Bit(sampledChange, j) = 1
                      => \E m \in 1 .. k - 1 : drained[m].index = j
            /\ \A m \in 1 .. k - 1 : drained[m].index < i

C2_Witness ==
    /\ Len(drained) = 3
    /\ board = "thumby"
    /\ sampledPrevious # 0

\* C3: the event for changed bit i carries key code codes[i]; it is a
\* release exactly when bit i of the current state is 0, else a press.
C3_EventCodeAndFlag ==
    \A k \in DOMAIN drained :
        LET i == drained[k].index
            e == drained[k].event
        IN  /\ Key(e) = codes(board)[i + 1]
            /\ Pressed(e) <=> Bit(state, i) = 1

C3_Witness ==
    /\ board = "pybadge"
    /\ \E k \in DOMAIN drained : Pressed(drained[k].event)
    /\ \E k \in DOMAIN drained : ~Pressed(drained[k].event)

\* C4: when ReadInput stores a sample while changes are still pending, the
\* following calls report exactly the bits in which the new state differs
\* from the stale previousState, each once: a bit that changed and changed
\* back is not reported, every other pending change is.
C4_StaleSample ==
    pendingBefore # 0 =>
        /\ \A k \in DOMAIN drained : Bit(sampledChange, drained[k].index) = 1
        /\ \A k, m \in DOMAIN drained :
              k # m => drained[k].index # drained[m].index
        /\ \A i \in 0 .. StateBits(board) - 1 :
              (Bit(pendingBefore, i) = 1 /\ Bit(sampledChange, i) = 0)
                  => i \notin drainedIndices
        /\ drainComplete =>
              drainedIndices =
                  {i \in 0 .. StateBits(board) - 1 : Bit(sampledChange, i) = 1}

C4_Witness ==
    /\ board = "gopher-badge"
    /\ drainComplete
    /\ \E i \in 0 .. 7 : Bit(pendingBefore, i) = 1 /\ Bit(sampledChange, i) = 0
    /\ \E i \in 0 .. 7 : Bit(pendingBefore, i) = 1 /\ i \in drainedIndices
    /\ \E i \in 0 .. 7 : Bit(pendingBefore, i) = 0 /\ i \in drainedIndices

(***************************************************************************)
(* Properties of the battery approximation and of Power.Status.            *)
(***************************************************************************)
\* The percentage as the interpolation formula states it, for the lithium
\* table: 0 up to the first breakpoint, 100 from the last, and between the
\* bracketing breakpoints lo <= microvolts < hi the line through them,
\* rounded down.
tableMicrovolts(i) == lithumBatteryApproximation.voltages[i] * 1000
tablePercent(i) == lithumBatteryApproximation.percents[i]
interpolatedPercent(mv) ==
    IF mv <= tableMicrovolts(1) THEN 0
    ELSE IF mv >= tableMicrovolts(6) THEN 100
    ELSE LET i == CHOOSE i \in 1 .. 5 :
                     tableMicrovolts(i) <= mv /\ mv < tableMicrovolts(i + 1)
         IN  tablePercent(i)
             + ((mv - tableMicrovolts(i))
                   * (tablePercent(i + 1) - tablePercent(i)))
               \div (tableMicrovolts(i + 1) - tableMicrovolts(i))

\* C5: approximate returns 0 at or below the first breakpoint, 100 at or
\* above the last one, and otherwise the linear interpolation between the
\* bracketing breakpoints, rounded down; 3510000 uV gives 1, 3528000 gives
\* 2, 3749999 gives 49, 3750000 gives 50, 4179999 gives 99, 4180000 gives 100.
C5_Interpolation ==
    batOp # "none" =>
        /\ percent = interpolatedPercent(microvolts)
        /\ \A tc \in {<<3510000, 1>>, <<3528000, 2>>, <<3749999, 49>>,
                      <<3750000, 50>>, <<4179999, 99>>, <<4180000, 100>>} :
              microvolts = tc[1] => percent = tc[2]

C5_Witness ==
    /\ batOp = "approximate"
    /\ microvolts = 3749999
    /\ percent = 49

\* C6: the percent that approximate returns is in 0..100.
C6_PercentRange ==
    batOp # "none" => percent \in 0 .. 100

C6_Witness ==
    /\ batOp = "approximate"
    /\ microvolts = 2147483647
    /\ percent = 100
    /\ batPrev.valid
    /\ batPrev.microvolts = 0
    /\ batPrev.percent = 0

\* C7: approximate is monotonic non-decreasing in the voltage: of two calls,
\* the one with the lower microvolts never returns the higher percent.
C7_Monotonic ==
    (batOp # "none" /\ batPrev.valid) =>
        /\ batPrev.microvolts <= microvolts => batPrev.percent <= percent
        /\ batPrev.microvolts >= microvolts => batPrev.percent >= percent

C7_Witness ==
    /\ batPrev.valid
    /\ batPrev.microvolts = 3599999
    /\ batPrev.percent = 9
    /\ microvolts = 3600000
    /\ percent = 10

\* C8: Power.Status of the PineTime returns Charging when the charge
\* indication pin reads low, whatever the power presence pin reads;
\* otherwise NotCharging when the power presence pin reads low; otherwise
\* Discharging.
C8_ChargeState ==
    (board = "pinetime" /\ batOp = "Status") =>
        /\ ~chargeIndicationPin => status = Charging
        /\ (chargeIndicationPin /\ ~powerPresencePin) => status = NotCharging
        /\ (chargeIndicationPin /\ powerPresencePin) => status = Discharging

C8_Witness ==
    /\ board = "pinetime"
    /\ batOp = "Status"
    /\ ~chargeIndicationPin
    /\ ~powerPresencePin
    /\ status = Charging

(***************************************************************************)
(* Properties of the touch contact and of the touch IDs.                   *)
(***************************************************************************)
recentFlags == [k \in DOMAIN recent |-> recent[k].above]

\* C9: in the PyPortal ReadTouch a new ID is allocated (the counter is
\* incremented and given to the touch point) exactly when a sample above the
\* threshold arrives while the ID is 0; the ID is non-zero and unchanged for
\* every following sample above the threshold, and the first sample that is
\* not above it resets the ID to 0.  The samples [below, above, above, above,
\* below] allocate exactly one ID.
C9_ContactLifecycle ==
    board = "pyportal" =>
        /\ \A k \in 2 .. Len(recent) :
              LET before == recent[k - 1]
                  after == recent[k]
                  isNew == after.counter # before.counter
              IN  /\ isNew <=> (after.above /\ before.id = 0)
                  /\ isNew => /\ after.counter = before.counter + 1
                              /\ after.id = after.counter
                  /\ after.above => after.id # 0
                  /\ (after.above /\ before.id # 0) => after.id = before.id
                  /\ ~after.above => after.id = 0
        /\ recentFlags = <<FALSE, TRUE, TRUE, TRUE, FALSE>> =>
              /\ recent[5].counter = recent[1].counter + 1
              /\ recent[1].id = 0
              /\ recent[2].id # 0
              /\ recent[3].id = recent[2].id
              /\ recent[4].id = recent[2].id
              /\ recent[5].id = 0
        /\ (recent # <<>> /\ Len(recent) < HistoryLen) =>
              IF recent[1].above
              THEN recent[1].id = 1 /\ recent[1].counter = 1
              ELSE recent[1].id = 0 /\ recent[1].counter = 0
        /\ recent # <<>> => touchPoints.ID = recent[Len(recent)].id

C9_Witness ==
    /\ board = "pyportal"
    /\ recentFlags = <<FALSE, TRUE, TRUE, TRUE, FALSE>>
    /\ recent[2].id = 2
    /\ touchPoints.ID = 0

\* C10: touch IDs start at 1 and increase: the first contact gets ID 1,
\* every later contact an ID greater than all earlier ones, and an active
\* touch never has ID 0.
C10_IncreasingIDs ==
    /\ allocated # <<>> => allocated[1] = 1
    /\ \A j, k \in DOMAIN allocated : j < k => allocated[j] < allocated[k]
    /\ \A k \in DOMAIN allocated : allocated[k] # 0
    /\ touchResult.n = 1 => touchResult.ID # 0
    /\ touchPoints.ID # 0 =>
          /\ allocated # <<>>
          /\ touchPoints.ID = allocated[Len(allocated)]

C10_Witness ==
    /\ board = "simulator"
    /\ Len(allocated) = 2
    /\ touchResult.n = 1
    /\ touchResult.ID = 2


(***************************************************************************)
(* Properties of the calibration and the rotation of the touch point.      *)
(***************************************************************************)
\* Width and height of the display in its current rotation: 240x320 for
\* rotation 0 and 180 (and without a display), 320x240 for 90 and 270.
rotatedWidth(disp) ==
    IF ~disp.nil /\ disp.rotation \in {Rotation90, Rotation270}
    THEN 320 ELSE 240

rotatedHeight(disp) ==
    IF ~disp.nil /\ disp.rotation \in {Rotation90, Rotation270}
    THEN 240 ELSE 320

\* Whether a raw position lies outside the calibration range of its axis.
outsideCalibration(posX, posY) ==
    \/ posX > ymin \/ posX < ymax
    \/ posY > xmin \/ posY < xmax

\* C11: every touch point ReadTouch returns lies inside the display in its
\* current rotation: 0 <= X < width and 0 <= Y < height, also for raw
\* positions outside the calibration range.
C11_InsideDisplay ==
    touchResult.n = 1 =>
        /\ 0 <= touchResult.X /\ touchResult.X < rotatedWidth(display)
        /\ 0 <= touchResult.Y /\ touchResult.Y < rotatedHeight(display)

\* A point was returned for a raw position outside the calibration range on a
\* display turned by 90 degrees.
C11_Witness ==
    /\ touchResult.n = 1
    /\ outsideCalibration(lastPosX, lastPosY)
    /\ ~display.nil /\ display.rotation = Rotation90

\* The pixel the last raw position calibrates to, before the rotation.
calibratedPixel ==
    [x |-> clamp(lastPosX, ymin, ymax, 0, 239),
     y |-> clamp(lastPosY, xmin, xmax, 0, 319)]

\* The rotation formulas applied to the pixel (x, y) with the given width
\* and height.
rotationFormula(x, y, rotation, width, height) ==
    IF rotation = Rotation90 THEN [X |-> y, Y |-> height - 1 - x]
    ELSE IF rotation = Rotation180 THEN [X |-> width - 1 - x,
                                         Y |-> height - 1 - y]
    ELSE IF rotation = Rotation270 THEN [X |-> width - 1 - y, Y |-> x]
    ELSE [X |-> x, Y |-> y]

currentRotation == IF display.nil THEN Rotation0 ELSE display.rotation

\* C12 as stated: the reported point follows the four rotation formulas with
\* one width and one height (those of the calibrated pixel, 240 and 320) in
\* all of them.
C12_OneSizeFormulas ==
    touchResult.n = 1 =>
        LET expected == rotationFormula(calibratedPixel.x, calibratedPixel.y,
                                        currentRotation, 240, 320)
        IN  touchResult.X = expected.X /\ touchResult.Y = expected.Y

\* C12, amended: the reported point follows the four rotation formulas with
\* the width and the height of the display in its current rotation (240x320
\* for rotation 0 and 180, 320x240 for rotation 90 and 270).
C12_RotationMapping ==
    touchResult.n = 1 =>
        LET expected == rotationFormula(calibratedPixel.x, calibratedPixel.y,
                                        currentRotation,
                                        rotatedWidth(display),
                                        rotatedHeight(display))
        IN  touchResult.X = expected.X /\ touchResult.Y = expected.Y

\* The calibrated corner (239, 319) was reported on a display turned by 270
\* degrees, as (0, 239).
C12_Witness ==
    /\ touchResult.n = 1
    /\ ~display.nil /\ display.rotation = Rotation270
    /\ lastPosX = ymax /\ lastPosY = xmax
    /\ touchResult.X = 0 /\ touchResult.Y = 239

(***************************************************************************)
(* Properties of the simulator's key event queue and touch point.          *)
(***************************************************************************)
\* C13: the key events the listener appends are returned by NextEvent in
\* arrival order, each exactly once (what was returned and what is still
\* queued make up what arrived), and NextEvent returns NoKeyEvent exactly
\* when the queue was empty at the call, under every interleaving.
C13_QueueOrder ==
    /\ Len(returned) <= Len(arrived)
    /\ returned = SubSeq(arrived, 1, Len(returned))
    /\ app.pc \in {"idle", "returned"} => arrived = returned \o keyevents
    /\ app.pc = "returned" => ((app.event = NoKeyEvent) <=> app.empty)

\* Two different events were returned while a third one was arriving: the
\* listener is about to take the lock that NextEvent just released.
C13_Witness ==
    /\ Len(returned) = 2
    /\ returned[1] # returned[2]
    /\ app.pc = "returned"
    /\ app.event = returned[2]
    /\ listener.pc = "keyLock"

\* C14: the ID, X and Y that a caller of the simulator's ReadTouch observes
\* in the returned point all come from one single state of the touch point:
\* together they are a value that screen.touches[0] has had.
C14_SingleState ==
    app.pc = "observed" =>
        [ID |-> app.ID, X |-> app.X, Y |-> app.Y] \in touchHistory

(***************************************************************************)
(* Properties of the battery smoothing.                                    *)
(***************************************************************************)
\* The two candidates of the current span: the integer percents of its
\* lowest and of its highest smoothed value.
spanLow == candidateOf(gauge.low)
spanHigh == candidateOf(gauge.high)

\* The smoothed value of the span moves across an integer boundary, and the
\* reported percent was one of the two candidates when the span began.
aroundBoundary ==
    /\ spanHigh = spanLow + 1
    /\ gauge.start \in {spanLow, spanHigh}

C16_RisesByOne ==
    gauge.calls > 0 =>
        /\ gauge.candidate < gauge.before => lastPercent = gauge.candidate
        /\ lastPercent <= gauge.before + 1

\* C16, amended: the reported percent drops to any lower candidate in one
\* call; between two consecutive calls it rises by two percentage points or
\* not at all (a candidate one point above it is ignored, and one step of
\* the smoothed value moves the candidate by one point at most).
C16_RisesByTwo ==
    gauge.calls > 0 =>
        /\ gauge.candidate < gauge.before => lastPercent = gauge.candidate
        /\ lastPercent > gauge.before => lastPercent = gauge.before + 2

\* A call raised the reported percent.
C16_Witness ==
    /\ gauge.calls > 0
    /\ lastPercent = gauge.before + 2
    /\ lastPercent = gauge.candidate

(***************************************************************************)
(* Properties of the KeyEvent encoding, of the microvolt conversion, of    *)
(* NextEvent's effect and of the median filter.                            *)
(***************************************************************************)
\* C17: the KeyEvent built from a key code, with bit 15 set for a release,
\* decodes to that key code and to the press/release flag, whatever bits
\* 8..14 hold: Key() depends on the low 8 bits only, Pressed() on bit 15 only.
C17_RoundTrip ==
    keyEvent.stage = "decoded" =>
        /\ keyEvent.key = keyEvent.code
        /\ keyEvent.pressed = ~keyEvent.release

\* The release of key code 255 with bits 8..14 set was decoded: the event
\* is 65535.
C17_Witness ==
    /\ keyEvent.stage = "decoded"
    /\ keyEvent.code = 255
    /\ keyEvent.release
    /\ keyEvent.event = 65535

\* The multiplier of the board's conversion.
scaleOfBoard == IF board = "pinetime" THEN scalePineTime ELSE scalePyBadge

\* C18: the product rawValue * 46875 (PineTime) or rawValue * 51562 (PyBadge)
\* of a Status call is below 2^32, so the microvolts it returns are the
\* quotient of the full product by 512.
C18_ProductFits ==
    batOp = "Status" =>
        LET w == mulWide(rawValue, scaleOfBoard)
        IN  /\ w.hi < 65536
            /\ microvolts = w.hi * 128 + (w.lo \div 512)

\* Status converted the highest raw value, 65535, on the PyBadge, which has
\* the larger multiplier.
C18_Witness ==
    /\ batOp = "Status"
    /\ board = "pybadge"
    /\ rawValue = 65535
    /\ microvolts = 6599835

\* C19: a NextEvent call that returns an event toggles exactly the reported
\* bit of previousState, which then equals that bit of state, and changes
\* neither another bit of previousState nor state; a call that returns
\* NoKeyEvent changes neither.
C19_FrameOfNextEvent ==
    [][lastCall'.op = "NextEvent" =>
         IF lastCall'.event = NoKeyEvent
         THEN state' = state /\ previousState' = previousState
         ELSE LET index == drained'[Len(drained')].index
              IN  /\ codes(board)[index + 1] = Key(lastCall'.event)
                  /\ previousState' = BitXor(previousState, Pow2(index))
                  /\ Bit(previousState', index) = Bit(state, index)
                  /\ state' = state]_vars

\* NextEvent returned an event while another change was pending, and that
\* change is still pending.
C19_Witness ==
    /\ lastCall.op = "NextEvent"
    /\ lastCall.event # NoKeyEvent
    /\ Len(drained) = 1
    /\ PopCount(changeOf(state, previousState)) >= 1

\* The values of a sequence that are below v, and those that are at most v.
countBelow(seq, v) == Cardinality({i \in DOMAIN seq : seq[i] < v})
countUpTo(seq, v) == Cardinality({i \in DOMAIN seq : seq[i] <= v})

\* The median of five values: the third smallest, ties included.
trueMedian(seq) ==
    CHOOSE v \in {seq[i] : i \in DOMAIN seq} :
        countBelow(seq, v) <= 2 /\ countUpTo(seq, v) >= 3

\* C20: after five or more add calls the filter holds the five most recent
\* values, and value() is their true median.
C20_TrueMedian ==
    Len(added) = 5 =>
        /\ medianFilterX = added
        /\ medianValue(medianFilterX) = trueMedian(added)

\* Five different values were added last, in an order in which only the
\* newest is in its place; the median is 3.
C20_Witness ==
    /\ added = <<4, 1, 5, 2, 3>>
    /\ medianFilterX = added
    /\ medianValue(medianFilterX) = 3

(***************************************************************************)
(* Properties of the IIR filter.                                           *)
(***************************************************************************)
\* C21: after iirFilter.add(x, true), value() equals the seed x, for every
\* seed (a raw value of the converter, so not negative) and every state the
\* filter was in before.
C21_SeedExact ==
    fed.op = "seed" => iirFilterX = fed.x

\* The filter was seeded from a state above the seed and from one below it
\* (here: from above), and holds the seed.
C21_Witness ==
    /\ fed.op = "seed"
    /\ fed.before = 40
    /\ fed.x = 9
    /\ iirFilterX = 9

distance(a, b) == IF a > b THEN a - b ELSE b - a

\* This step is a ReadTouch call with a touch before it and after it.
touchingCall ==
    /\ board = "pyportal"
    /\ touchPoints.ID # 0
    /\ sampled'.z > 8192
    /\ contactReads' = contactReads + 1

\* C23: while touching, if the filtered value of an axis is within 400 raw
\* units of the last reported position of that axis, the reported position
\* of that axis is the last reported position.
C23_HeldInsideStep ==
    [][touchingCall =>
         /\ distance(iirFilterX', lastPosX) <= 400 => lastPosX' = lastPosX
         /\ distance(iirFilterY', lastPosY) <= 400 => lastPosY' = lastPosY]_vars

\* The second call of a contact that started at 35000: the filtered value
\* is 35400, exactly 400 from the position, which stayed.
C23_Witness ==
    /\ touchResult.n = 1
    /\ contactReads = 2
    /\ iirFilterX = 35400
    /\ lastPosX = 35000

\* C24 as claimed: in every ReadTouch call from touching to touching the
\* reported raw position of each axis moves by at most 400 raw units.
C24_StepAtMostDiff ==
    [][touchingCall =>
         /\ distance(lastPosX', lastPosX) <= 400
         /\ distance(lastPosY', lastPosY) <= 400]_vars

\* Where one axis ends up: where it was, or moved toward the filtered value
\* and now exactly 400 short of it.
movedToward(filtered, old, new) ==
    \/ new = old
    \/ old < new /\ new = filtered - 400
    \/ old > new /\ new = filtered + 400

\* C24: in every ReadTouch call from touching to touching the reported raw
\* position of each axis stays, or moves toward the filtered value and stops
\* 400 raw units short of it, however far that is.
C24_StopsShort ==
    [][touchingCall =>
         /\ movedToward(iirFilterX', lastPosX, lastPosX')
         /\ movedToward(iirFilterY', lastPosY, lastPosY')]_vars

\* The second call of a contact that started at 35000: the filtered value
\* is 34000 and the position went down to 34400, by 600.
C24_Witness ==
    /\ touchResult.n = 1
    /\ contactReads = 2
    /\ iirFilterY = 34000
    /\ lastPosY = 34400

\* C29: after every ReadTouch call that returns a point, the last reported
\* raw position of each axis is within 400 raw units of the filtered value
\* of that axis.
C29_NearFiltered ==
    board = "pyportal" /\ touchResult.n = 1 =>
        /\ distance(lastPosX, iirFilterX) <= 400
        /\ distance(lastPosY, iirFilterY) <= 400

\* A point was returned with the position below the filtered value on one
\* axis and above it on the other, at the full distance on one of them.
C29_Witness ==
    /\ touchResult.n = 1
    /\ lastPosX < iirFilterX
    /\ lastPosY > iirFilterY
    /\ distance(lastPosY, iirFilterY) = 400

\* The raw X and Y values that the last ReadTouch call read, in order.
sampledX == [i \in 1 .. Len(sampled.points) |-> sampled.points[i].X]
sampledY == [i \in 1 .. Len(sampled.points) |-> sampled.points[i].Y]

\* C25: the first ReadTouch call of a contact reads five raw samples in all
\* and reports the position computed from the median of these five, with the
\* IIR filters at that median: nothing of the reported point comes from the
\* median windows, the IIR states or the last position of earlier contacts.
C25_FirstPointFromBurst ==
    board = "pyportal" /\ contactReads = 1 =>
        /\ Len(sampled.points) = 5
        /\ medianFilterX = sampledX
        /\ medianFilterY = sampledY
        /\ iirFilterX = trueMedian(sampledX)
        /\ iirFilterY = trueMedian(sampledY)
        /\ lastPosX = trueMedian(sampledX)
        /\ lastPosY = trueMedian(sampledY)
        /\ LET px == calibrated(trueMedian(sampledX), trueMedian(sampledY),
                                display)
           IN  touchResult = [n |-> 1, ID |-> touchID, X |-> px.X,
                              Y |-> px.Y]

\* The first call of the second contact, with three of the five samples at
\* 35800: the earlier contact left filters and a last position behind, and
\* the position is the median of the burst.
C25_Witness ==
    /\ touchID = 2
    /\ contactReads = 1
    /\ sampledX = <<35000, 35800, 35000, 35800, 35800>>
    /\ lastPosX = 35800
    /\ lastPosY = 33000

\* C26: a ReadTouch call whose sample is not above the threshold (Z <= 8192)
\* returns no touch point, sets the touch ID to 0, and leaves the median
\* windows, the IIR states and the last reported position as they were.
C26_ReleaseFrame ==
    [][board = "pyportal" /\ sampled'.z <= 8192 /\ recent' # <<>> =>
         /\ touchResult' = noPoint
         /\ touchPoints'.ID = 0
         /\ UNCHANGED <<medianFilterX, medianFilterY, iirFilterX,
                        iirFilterY, lastPosX, lastPosY>>]_vars

\* A release after a contact with a moving finger: no point, no ID, and the
\* filters and the last position still hold what the contact left.
C26_Witness ==
    /\ sampled.z <= 8192
    /\ recent # <<>>
    /\ touchID = 1
    /\ touchResult = noPoint
    /\ touchPoints.ID = 0
    /\ medianFilterY = <<35000, 35000, 33000, 33000, 33000>>
    /\ iirFilterY = 34000
    /\ lastPosY = 34400

(***************************************************************************)
(* Properties of the events of one key.                                    *)
(***************************************************************************)
\* C27: from the all-zero state and under every interleaving of ReadInput
\* and NextEvent, the events reported for one key alternate press, release,
\* press, ..., the first being a press: an event is a press only if the last
\* event of that key was not a press, and a release only if it was a press.
C27_Alternates ==
    [][Len(drained') = Len(drained) + 1 =>
         LET last == drained'[Len(drained')]
         IN  IF Pressed(last.event)
             THEN lastReported[last.index] # "press"
             ELSE lastReported[last.index] = "press"]_vars

\* The last sample was taken while changes of the sample before it were
\* still pending, and since then a press and a release were reported; a key
\* whose press was pending when the sample was taken is reported pressed.
C27_Witness ==
    /\ sampledOld # sampledPrevious
    /\ \E i, j \in 1 .. Len(drained) :
          Pressed(drained[i].event) /\ ~Pressed(drained[j].event)
    /\ \E index \in 0 .. 15 :
          /\ lastReported[index] = "press"
          /\ BitAnd(sampledPrevious, Pow2(index)) = 0
          /\ BitAnd(sampledOld, Pow2(index)) # 0

\* C28: on the Game Boy Advance tracker, for every 16-bit state and
\* previousState, NextEvent returns NoKeyEvent only when the two are equal:
\* no change that it reports is reported as the value NoKeyEvent, and when
\* it has returned NoKeyEvent nothing is pending.
C28_NoEventMeansDrained ==
    board = "gameboy-advance" =>
        /\ \A i \in 1 .. Len(drained) : drained[i].event # NoKeyEvent
        /\ lastCall = [op |-> "NextEvent", event |-> NoKeyEvent]
              => state = previousState

(***************************************************************************)
(* Properties of the parts-per-million lookup.                             *)
(***************************************************************************)
\* C30: for every microvolts value, approximatePPM(microvolts) / 10000
\* (integer division) equals approximate(microvolts), and approximatePPM
\* is in 0 .. 1000000.
C30_PPMAgrees ==
    looked.done =>
        /\ looked.ppm \div 10000 = looked.percent
        /\ looked.ppm \in 0 .. 1000000

\* One microvolt below the step to 50 percent: 49 percent, and a ppm value
\* that is not a whole percent.
C30_Witness ==
    /\ looked.done
    /\ looked.microvolts = 3749999
    /\ looked.percent = 49
    /\ looked.ppm = 499995

(***************************************************************************)
(* Properties of the conversion of the raw ADC value to microvolts.        *)
(***************************************************************************)
\* The formula documented in Status, rawValue * fullScale / 0x10000, in whole
\* microvolts.  The product does not fit the integers of the checker, so it
\* is split: fullScale = high * 65536 + mid * 256 + low.
documentedMicrovolts(raw, fullScale) ==
    LET high == fullScale \div 65536
        mid == (fullScale % 65536) \div 256
        low == fullScale % 256
    IN  raw * high + (raw * mid + (raw * low) \div 256) \div 256

\* The full scale of the documented formula, in microvolts.
fullScaleOfBoard == IF board = "pinetime" THEN 6000000 ELSE 6600000

\* C31: the simplified conversion of Status gives the microvolts of the
\* formula documented next to it, for every raw ADC value: raw * 46875 / 512
\* equals raw * 6000000 / 0x10000 on the PineTime and raw * 51562 / 512
\* equals raw * 6600000 / 0x10000 on the PyBadge.
C31_SameAsDocumented ==
    batOp = "Status" =>
        microvolts = documentedMicrovolts(rawValue, fullScaleOfBoard)


(***************************************************************************)
(* The touch screen of the PineTime.                                       *)
(***************************************************************************)
\* C32: in the PineTime ReadTouch, a read that belongs to the same contact
\* as the read before it (the latch is still set, the read that reports
\* zero touches included) returns a touch point with the ID of the point
\* that the read before it returned.
C32_OneIDPerContact ==
    [][(board = "pinetime" /\ latch /\ contactReads >= 1
            /\ touchResult'.n = 1)
          => touchResult'.ID = touchResult.ID]_vars

\* C33: every touch point that the PineTime ReadTouch returns lies inside
\* the 240x240 display of mainDisplay.Size, 0 <= X <= 239 and 0 <= Y <= 239.
C33_InsideDisplay ==
    (board = "pinetime" /\ touchResult.n = 1)
        => (touchResult.X \in 0 .. 239 /\ touchResult.Y \in 0 .. 239)


(***************************************************************************)
(* The watchdog of the PineTime.                                           *)
(***************************************************************************)
\* C34: singleButton.ReadInput reloads the watchdog only in calls where the
\* button reads not pressed: while the button has read pressed in every one
\* of the last calls, none of these calls reloaded the watchdog, and a call
\* that read not pressed did.
C34_NoReloadWhileHeld ==
    board = "pinetime" =>
        /\ watchdog.sinceReload >= watchdog.held
        /\ (lastCall.op = "ReadInput" /\ state = 0) => watchdog.sinceReload = 0

\* The button was read pressed MaxHeld times in a row and the watchdog was
\* not reloaded in any of these calls.
C34_Witness ==
    /\ board = "pinetime"
    /\ lastCall.op = "ReadInput"
    /\ state = 1
    /\ watchdog.held = MaxHeld
    /\ watchdog.sinceReload = MaxHeld


(***************************************************************************)
(* The touch point of the simulator window.                                *)
(***************************************************************************)
\* C35: in the simulator ReadTouch returns a touch point exactly between a
\* mousedown and the following mouseup: every ReadTouch since a mousedown
\* returns one point with the ID that this mousedown allocated, an ID
\* greater than every earlier one; every ReadTouch since a mouseup (and
\* before the first mousedown) returns nothing; a mousemove leaves the ID as
\* it was and changes nothing at all while no touch is active.
C35_BetweenDownAndUp ==
    board = "simulator" =>
        /\ pointer.down <=> touchPoints.ID # 0
        /\ \A r \in pointer.reads :
              IF pointer.down
              THEN r.n = 1 /\ r.ID = allocated[Len(allocated)]
              ELSE r.n = 0
        /\ pointer.event = "mousedown" =>
              /\ touchPoints.ID = allocated[Len(allocated)]
              /\ \A k \in 1 .. Len(allocated) - 1 :
                    allocated[k] < touchPoints.ID
        /\ pointer.event = "mousemove" =>
              /\ touchPoints.ID = pointer.before.ID
              /\ pointer.before.ID = 0 => touchPoints = pointer.before

\* The second contact was read after a mousemove, the calls before it
\* returned the first contact and, after its mouseup, nothing.
C35_Witness ==
    /\ board = "simulator"
    /\ pointer.down
    /\ pointer.event = "mousemove"
    /\ pointer.before.X # touchPoints.X
    /\ pointer.reads = {[n |-> 1, ID |-> 2]}
    /\ Len(recent) >= 3
    /\ recent[Len(recent) - 2].id = 1
    /\ recent[Len(recent) - 1].id = 0
    /\ recent[Len(recent)].id = 2


(***************************************************************************)
(* The display of the Game Boy Advance.                                    *)
(***************************************************************************)
\* Whether the rectangle of the last DrawBitmap lies entirely inside the
\* 240x160 display.
insideDisplay ==
    /\ drawn.x >= 0
    /\ drawn.y >= 0
    /\ drawn.x + drawn.width <= 240
    /\ drawn.y + drawn.height <= 160

\* C36: DrawBitmap of the Game Boy Advance returns errOutOfBounds and writes
\* no pixel when the rectangle is not entirely inside the 240x160 display;
\* otherwise it returns nil, writes width * height pixels and every index it
\* writes is within 0 .. 240 * 160 - 1.
C36_DrawInsideOnly ==
    drawn.op = "DrawBitmap" =>
        IF insideDisplay
        THEN /\ drawn.err = "nil"
             /\ drawn.written \subseteq 0 .. 240 * 160 - 1
             /\ Cardinality(drawn.written) = drawn.width * drawn.height
        ELSE /\ drawn.err = "errOutOfBounds"
             /\ drawn.written = {}

\* A bitmap in the bottom right corner was drawn up to the last pixel of the
\* framebuffer.
C36_Witness ==
    /\ drawn.op = "DrawBitmap"
    /\ drawn.x + drawn.width = 240
    /\ drawn.y + drawn.height = 160
    /\ drawn.err = "nil"
    /\ 240 * 160 - 1 \in drawn.written


(***************************************************************************)
(* The sensors of the simulator.                                           *)
(***************************************************************************)
\* Whether the last call asked for a measurement that the last Configure
\* did not name.
asksUnconfigured ==
    \E m \in MeasurementBits :
        /\ BitAnd(sensors.which, m) # 0
        /\ BitAnd(sensors.configured, m) = 0

\* C37: Sensors.Update(which) of the simulator panics exactly when which
\* contains a measurement that was not part of the last Configure call, and
\* then no sensor value has been modified; when every requested measurement
\* was configured it returns nil.
C37_PanicsIffUnconfigured ==
    sensors.op = "Update" =>
        IF asksUnconfigured
        THEN /\ sensors.result = "panic"
             /\ sensorValues(sensors) = sensors.before
        ELSE sensors.result = "nil"

\* Update panicked on a request for the acceleration and the temperature
\* with only the temperature configured, after an earlier Update had set the
\* temperature.
C37_Witness ==
    /\ sensors.op = "Update"
    /\ sensors.configured = Temperature
    /\ sensors.which = Temperature + Acceleration
    /\ sensors.result = "panic"
    /\ sensors.temp # 0


(***************************************************************************)
(* The SPI bus of the PineTime.                                            *)
(***************************************************************************)
\* C38: getSPI0 configures the SPI bus (and sends the flash to deep
\* power-down) only if that was not already done: after any number of calls
\* the bus has been configured exactly once, by the first call.
C38_ConfiguredOnce ==
    (board = "pinetime" /\ spiBus.calls >= 1) => spiBus.configures = 1

====
